---- MODULE Spec2Model ----
(***************************************************************************)
(* A model of hostinger-cli: the remote path resolver (utils/path.ts), the *)
(* interactive shell's remote commands and their SFTP sessions (shell.ts), *)
(* and the sync engine (sync/sync.ts) over the remote tree primitives of   *)
(* sftp/client.ts.                                                         *)
(*                                                                         *)
(* Strings that the code inspects character by character (remote paths)    *)
(* are sequences of one-character strings.  Relative paths of the sync     *)
(* engine are sequences of path segments.                                  *)
(***************************************************************************)
EXTENDS Integers, Sequences, FiniteSets, TLC

VARIABLES
    \* ---- path resolver harness (SpecPath)
    pRoot,      \* remoteRoot argument
    pCwd,       \* remoteCwd argument
    pTarget,    \* targetPath argument
    pFn,        \* which function was applied: "none", "resolveFromCwd", "ensureWithinRoot"
    pOut,       \* its result: [ok |-> BOOLEAN, value |-> path]
    \* ---- upload classification harness (SpecClassify)
    cLocal,     \* localStat: [size, mtimeMs]
    cStat,      \* what client.stat(remotePath) gave: thrown, null, or [size, modifyTime]
    cOut,       \* "none" before the call, then "upload" (shouldUpload gave true) or "skip"
    \* ---- syncDirectory (SpecSync)
    sLocal,       \* the local tree under localDir: files [rel, size, mtimeMs], in walk order
    sOpt,         \* options: [clean, dryRun]
    sRemote0,     \* the remote tree when syncDirectory is called
    sRemote,      \* the remote tree now
    sPc,          \* position in syncDirectory
    sIdx,         \* index of the loop the call is in
    sPlan,        \* uploadPlan
    sSkipped,     \* skipped
    sUploaded,    \* uploaded
    sDeleted,     \* deleted
    sRemoteDirs,  \* remoteDirs, the memo of ensured parent directories
    sRemoteFiles, \* remoteFiles, the recursive listing of clean mode
    sCalls,       \* the remote calls issued so far by this call, in order
    sFaults,      \* I/O failures the environment has injected into this call
    sFirst,       \* the outcome of the earlier dry-run call on the same inputs
    \* ---- the interactive shell (Spec)
    hSite,      \* currentSite: [active, remoteRoot, remoteCwd, sftp]; "" is <<>>
    hOthers,    \* the other saved sites: [n |-> how many have sftp, match |-> same username]
    hDarwin,    \* os.platform() === "darwin"
    hPc,        \* position of the command loop: "prompt" between commands
    hCmd,       \* the command being run: [name, stage, arg, resolved, fallbackRoot, type, threw, escaped]
    hOpen,      \* remote sessions open now
    hOpened,    \* remote sessions the current command has opened
    hOps,       \* remote paths the current command handed to session operations
    hPrompted,  \* the current command ran the credential prompt
    hResult,    \* how the last command ended: "none", "ok", "failed"
    hRl,        \* rl, the loop's line reader on stdin: "attached" or "closed"
    hResumes,   \* resumeShellFn calls since the last suspendShellFn call
    \* ---- the remote tree primitives applied to drawn inputs (SpecTree)
    tFs,        \* the remote tree before the call
    tPath,      \* the remote path given to the primitive
    tFn,        \* which primitive was applied: "none" before the call
    tOut,       \* its outcome: [ok, fs, calls]
    tSecond,    \* the outcome of the same call made once more on the tree it left
    \* ---- mountRemotePath (SpecMount)
    mIn,        \* what the call finds: [mkdir, sshfs, sftp, interactive, remotePath]
    mTable,     \* the mountpoints the OS mount table lists as active
    mPc,        \* position in mountRemotePath
    mMountpoint,\* mountpoint, once ensureMountpoint chose it
    mAuth,      \* sftp.auth.type, once ensureSftp returned
    mLog,       \* mount-table queries, prompts and helper runs so far, in order
    mResult,    \* how the call ended: [kind, value]
    mDirs,      \* the mountpoint candidates at which something exists (fs.existsSync)
    \* ---- handleUmount (SpecMount, after or instead of the mount)
    uPc,        \* position in handleUmount
    uMountpoint,\* mountpoint, once getExistingMountpoint resolved it
    uLog,       \* mount-table queries and unmount commands so far, in order
    uResult,    \* how the call ended: [kind, text]
    \* ---- isMounted applied to the output of the mount command (SpecMountTable)
    kTable,     \* the mount table: entries [device, target]
    kReadable,  \* the mount command ran and exited with status 0
    kMountpoint,\* the mountpoint asked about
    kAnswer,    \* "none" before the call, then "true" or "false"
    \* ---- a TransferProgress (SpecProgress)
    gTotal,       \* the totalBytes argument of the constructor
    gTransferred, \* transferredBytes
    gAdds,        \* the arguments of the add calls so far, in order
    gFinished,    \* finish() calls so far
    \* ---- the code that owns a TransferProgress (SpecReporter)
    rIn,        \* the call: [who, dryRun, plan, pre]
    rPc,        \* where the owner is
    rIdx,       \* the plan entry the upload loop is at
    rThrew      \* an exception is on its way out of the try block

pathVars == <<pRoot, pCwd, pTarget, pFn, pOut>>
classVars == <<cLocal, cStat, cOut>>

syncRun == <<sRemote, sPc, sIdx, sPlan, sSkipped, sUploaded, sDeleted, sRemoteDirs,
             sRemoteFiles, sCalls, sFaults>>
syncVars == <<sLocal, sOpt, sRemote0, syncRun, sFirst>>

readerVars == <<hRl, hResumes>>
shellVars == <<hSite, hOthers, hDarwin, hPc, hCmd, hOpen, hOpened, hOps, hPrompted, hResult,
               readerVars>>

treeVars == <<tFs, tPath, tFn, tOut, tSecond>>

tableVars == <<kTable, kReadable, kMountpoint, kAnswer>>
progressVars == <<gTotal, gTransferred, gAdds, gFinished>>
reporterVars == <<rIn, rPc, rIdx, rThrew>>
auxVars == <<tableVars, progressVars, reporterVars>>

umountVars == <<uPc, uMountpoint, uLog, uResult>>
mountVars == <<mIn, mTable, mPc, mMountpoint, mAuth, mLog, mResult, mDirs, umountVars>>

vars == <<pathVars, classVars, syncVars, shellVars, treeVars, mountVars, auxVars>>

\* each specification drives one part of the program; the other parts stay idle
PathIdle ==
    pRoot = <<>> /\ pCwd = <<>> /\ pTarget = <<>> /\ pFn = "none"
    /\ pOut = [ok |-> FALSE, value |-> <<>>]
SyncIdle ==
    /\ sLocal = <<>> /\ sOpt = [clean |-> FALSE, dryRun |-> FALSE]
    /\ sRemote0 = <<>> /\ sRemote = <<>> /\ sPc = "idle" /\ sIdx = 0
    /\ sPlan = <<>> /\ sSkipped = <<>> /\ sUploaded = <<>> /\ sDeleted = <<>>
    /\ sRemoteDirs = {} /\ sRemoteFiles = <<>> /\ sCalls = <<>> /\ sFaults = 0
    /\ sFirst = [state |-> "none", uploaded |-> <<>>, skipped |-> <<>>,
                 deleted |-> <<>>, faults |-> 0]
NoCmd == [name |-> "none", stage |-> "none", arg |-> <<>>, resolved |-> <<>>,
          fallbackRoot |-> <<>>, type |-> "none", threw |-> FALSE, escaped |-> FALSE]
ShellIdle ==
    /\ hSite = [active |-> FALSE, remoteRoot |-> <<>>, remoteCwd |-> <<>>, sftp |-> FALSE]
    /\ hOthers = [n |-> 0, match |-> FALSE]
    /\ hDarwin = FALSE /\ hPc = "off" /\ hCmd = NoCmd
    /\ hOpen = 0 /\ hOpened = 0 /\ hOps = {} /\ hPrompted = FALSE /\ hResult = "none"
    /\ hRl = "closed" /\ hResumes = 0
NoOutcome == [ok |-> TRUE, fs |-> <<>>, calls |-> <<>>]
TreeIdle ==
    tFs = <<>> /\ tPath = <<>> /\ tFn = "off" /\ tOut = NoOutcome /\ tSecond = NoOutcome
NoResult == [kind |-> "none", value |-> ""]
NoUmount == [kind |-> "none", text |-> {}]
MountIdle ==
    /\ mIn = [mkdir |-> "primary", sshfs |-> FALSE, sftp |-> "none", interactive |-> FALSE,
              remotePath |-> "/site"]
    /\ mTable = {} /\ mPc = "off" /\ mMountpoint = "" /\ mAuth = "none"
    /\ mLog = <<>> /\ mResult = NoResult /\ mDirs = {}
    /\ uPc = "off" /\ uMountpoint = "" /\ uLog = <<>> /\ uResult = NoUmount
TableIdle == kTable = <<>> /\ kReadable = FALSE /\ kMountpoint = <<>> /\ kAnswer = "off"
ProgressIdle == gTotal = 0 /\ gTransferred = 0 /\ gAdds = <<>> /\ gFinished = -1
NoOwner == [who |-> "none", dryRun |-> FALSE, plan |-> 0, pre |-> "ok"]
ReporterIdle == rIn = NoOwner /\ rPc = "off" /\ rIdx = 0 /\ rThrew = FALSE
AuxIdle == TableIdle /\ ProgressIdle /\ ReporterIdle
ClassIdle ==
    cLocal = [size |-> 0, mtimeMs |-> 0] /\ cStat = [kind |-> "thrown", size |-> 0, modifyTime |-> 0]
    /\ cOut = "none"

----------------------------------------------------------------------------
(* Bounds of the model *)

\* longest path string drawn as an input of the path functions
MaxLen == 3
\* largest file size (bytes) of a local or remote file
MaxSize == 2
\* latest modification time, in seconds
MaxSec == 4
\* I/O failures the environment may inject into one syncDirectory call
MaxFaults == 1

----------------------------------------------------------------------------
(* Strings as sequences of characters *)

Chars == {"/", "\\", ".", "a"}

RECURSIVE SeqsOfLen(_, _)
SeqsOfLen(S, n) ==
    IF n = 0 THEN {<<>>}
    ELSE {Append(s, c) : s \in SeqsOfLen(S, n - 1), c \in S}

SeqsUpTo(S, n) == UNION {SeqsOfLen(S, k) : k \in 0..n}

\* String.prototype.startsWith
StartsWith(s, p) == Len(p) <= Len(s) /\ SubSeq(s, 1, Len(p)) = p

\* String.prototype.replace(/\\/g, "/")
ReplaceBackslashes(s) == [i \in 1..Len(s) |-> IF s[i] = "\\" THEN "/" ELSE s[i]]

\* the literal "/public_html", the default of every `remoteRoot || "/public_html"`
DefaultRoot == <<"/", "p", "u", "b", "l", "i", "c", "_", "h", "t", "m", "l">>

\* `x || "/public_html"`: the empty string is falsy
OrDefaultRoot(x) == IF x = <<>> THEN DefaultRoot ELSE x

\* split a string at "/" (String.prototype.split("/")): n separators give n+1 pieces
RECURSIVE SplitSlash(_)
SplitSlash(s) ==
    IF \A i \in 1..Len(s) : s[i] # "/" THEN <<s>>
    ELSE LET k == CHOOSE i \in 1..Len(s) : s[i] = "/" /\ \A j \in 1..(i - 1) : s[j] # "/"
         IN  <<SubSeq(s, 1, k - 1)>> \o SplitSlash(SubSeq(s, k + 1, Len(s)))

\* join segments with "/"
RECURSIVE JoinSlash(_)
JoinSlash(segs) ==
    IF segs = <<>> THEN <<>>
    ELSE IF Len(segs) = 1 THEN segs[1]
    ELSE segs[1] \o <<"/">> \o JoinSlash(Tail(segs))

Dot == <<".">>
DotDot == <<".", ".">>

\* node's normalizeString: drop empty and "." segments, let ".." pop the segment
\* before it; above the top, ".." is kept only when allowAboveRoot
RECURSIVE CollapseSegments(_, _, _)
CollapseSegments(segs, acc, allowAboveRoot) ==
    IF segs = <<>> THEN acc
    ELSE LET s == Head(segs)
             rest == Tail(segs)
         IN  IF s = <<>> \/ s = Dot THEN CollapseSegments(rest, acc, allowAboveRoot)
             ELSE IF s = DotDot
                  THEN IF acc # <<>> /\ acc[Len(acc)] # DotDot
                       THEN CollapseSegments(rest, SubSeq(acc, 1, Len(acc) - 1), allowAboveRoot)
                       ELSE IF allowAboveRoot
                            THEN CollapseSegments(rest, Append(acc, s), allowAboveRoot)
                            ELSE CollapseSegments(rest, acc, allowAboveRoot)
                  ELSE CollapseSegments(rest, Append(acc, s), allowAboveRoot)

\* path.posix.normalize
PosixNormalize(p) ==
    IF p = <<>> THEN Dot
    ELSE LET isAbsolute == p[1] = "/"
             trailingSeparator == p[Len(p)] = "/"
             body == JoinSlash(CollapseSegments(SplitSlash(p), <<>>, ~isAbsolute))
         IN  IF body = <<>>
             THEN IF isAbsolute THEN <<"/">>
                  ELSE IF trailingSeparator THEN <<".", "/">> ELSE Dot
             ELSE LET withSep == IF trailingSeparator THEN body \o <<"/">> ELSE body
                  IN  IF isAbsolute THEN <<"/">> \o withSep ELSE withSep

\* path.posix.join of two arguments: empty arguments are skipped
PosixJoin(a, b) ==
    LET joined == IF a = <<>> THEN b
                  ELSE IF b = <<>> THEN a
                  ELSE a \o <<"/">> \o b
    IN  PosixNormalize(joined)

\* path.posix.dirname: cut at the last "/" that has a non-separator after it
PosixDirname(p) ==
    IF p = <<>> THEN Dot
    ELSE LET hasRoot == p[1] = "/"
             cut == {i \in 2..(Len(p) - 1) : p[i] = "/" /\ \E j \in (i + 1)..Len(p) : p[j] # "/"}
         IN  IF cut = {}
             THEN IF hasRoot THEN <<"/">> ELSE Dot
             ELSE LET e == CHOOSE i \in cut : \A j \in cut : j <= i
                  IN  IF hasRoot /\ e = 2 THEN <<"/", "/">> ELSE SubSeq(p, 1, e - 1)

----------------------------------------------------------------------------
(* utils/path.ts *)

normalizeRemotePath(remotePath) ==
    LET normalized == ReplaceBackslashes(remotePath)
    IN  IF ~StartsWith(normalized, <<"/">>) THEN <<"/">> \o normalized ELSE normalized

resolveFromCwd(remoteRoot, remoteCwd, targetPath) ==
    LET baseRoot == normalizeRemotePath(OrDefaultRoot(remoteRoot))
        cwd == normalizeRemotePath(IF remoteCwd = <<>> THEN baseRoot ELSE remoteCwd)
        target == ReplaceBackslashes(targetPath)
    IN  IF StartsWith(target, <<"/">>)
        THEN normalizeRemotePath(target)
        ELSE PosixNormalize(PosixJoin(cwd, target))

\* the result of a call that may throw: ok = FALSE is the thrown Error
Returned(v) == [ok |-> TRUE, value |-> v]
Thrown == [ok |-> FALSE, value |-> <<>>]

\* a containment test that compares whole segments: the path must equal the root
\* or continue it with a separator
ensureWithinRoot_SegmentWise(remoteRoot, targetPath) ==
    LET baseRoot == normalizeRemotePath(OrDefaultRoot(remoteRoot))
        normalized == normalizeRemotePath(targetPath)
        inside == /\ StartsWith(normalized, baseRoot)
                  /\ \/ Len(normalized) = Len(baseRoot)
                     \/ baseRoot[Len(baseRoot)] = "/"
                     \/ normalized[Len(baseRoot) + 1] = "/"
    IN  IF ~inside THEN Thrown ELSE Returned(normalized)

ensureWithinRoot(remoteRoot, targetPath) ==
    LET baseRoot == normalizeRemotePath(OrDefaultRoot(remoteRoot))
        normalized == normalizeRemotePath(targetPath)
    IN  IF ~StartsWith(normalized, baseRoot) THEN Thrown ELSE Returned(normalized)

----------------------------------------------------------------------------
(* SpecPath: the path functions applied to every bounded input *)

PathInputs == SeqsUpTo(Chars, MaxLen)

\* roots and cwds: short strings, and the default root
RootInputs == SeqsUpTo(Chars, MaxLen - 1) \cup {DefaultRoot}

\* targets: every short string, and two strings under the default root
TargetInputs == PathInputs \cup {DefaultRoot, DefaultRoot \o <<"/", "a">>}

CwdInputs == {<<>>, <<"/", "a">>, <<"a", "\\", "a">>, <<"/", "a", "/">>}

PathInit ==
    /\ pRoot \in RootInputs
    /\ pCwd \in CwdInputs
    /\ pTarget \in TargetInputs
    /\ pFn = "none"
    /\ pOut = Thrown
    /\ ClassIdle
    /\ SyncIdle
    /\ ShellIdle
    /\ TreeIdle
    /\ MountIdle
    /\ AuxIdle

ApplyResolveFromCwd ==
    /\ pFn = "none"
    /\ pFn' = "resolveFromCwd"
    /\ pOut' = Returned(resolveFromCwd(pRoot, pCwd, pTarget))
    /\ UNCHANGED <<pRoot, pCwd, pTarget, classVars, syncVars, shellVars, treeVars, mountVars, auxVars>>

ApplyEnsureWithinRoot ==
    /\ pFn = "none"
    /\ pFn' = "ensureWithinRoot"
    /\ pOut' = ensureWithinRoot(pRoot, pTarget)
    /\ UNCHANGED <<pRoot, pCwd, pTarget, classVars, syncVars, shellVars, treeVars, mountVars, auxVars>>

PathNext ==
    \/ ApplyResolveFromCwd
    \/ ApplyEnsureWithinRoot

SpecPath == PathInit /\ [][PathNext]_vars

\* a normalized RemotePath: non-empty, absolute, forward slashes only, and no
\* "." or ".." segment
IsNormalizedRemotePath(p) ==
    /\ p # <<>>
    /\ p[1] = "/"
    /\ \A i \in 1..Len(p) : p[i] # "\\"
    /\ \A i \in 1..Len(SplitSlash(p)) : SplitSlash(p)[i] \notin {Dot, DotDot}

C3_ResolvedIsNormalized ==
    pFn = "resolveFromCwd" => IsNormalizedRemotePath(pOut.value)

----------------------------------------------------------------------------
(* sync/sync.ts: shouldUpload *)

\* the clock-skew allowance of shouldUpload, in milliseconds
MtimeToleranceMs == 2000

\* what `await client.stat(remotePath)` can give: a rejection (the path is absent,
\* or the call failed), a falsy value, or the attributes
StatThrown == [kind |-> "thrown", size |-> 0, modifyTime |-> 0]
StatNull == [kind |-> "null", size |-> 0, modifyTime |-> 0]
StatOf(size, modifyTime) == [kind |-> "stat", size |-> size, modifyTime |-> modifyTime]

shouldUpload(stat, localStat) ==
    IF stat.kind = "thrown" THEN TRUE
    ELSE IF stat.kind = "null" THEN TRUE
    ELSE IF stat.size # localStat.size THEN TRUE
    ELSE LET remoteMtime == IF stat.modifyTime # 0 THEN stat.modifyTime * 1000 ELSE 0
         IN  remoteMtime # 0 /\ localStat.mtimeMs > remoteMtime + MtimeToleranceMs

----------------------------------------------------------------------------
(* SpecClassify: shouldUpload applied to every bounded local stat and remote stat *)

Sizes == 0..MaxSize
\* local modification times, in milliseconds: whole seconds and one millisecond later
LocalMtimes == {sec * 1000 + ms : sec \in 0..MaxSec, ms \in {0, 1}}
\* remote modification times as client.stat reports them, in seconds
RemoteMtimes == 0..MaxSec

LocalStats == [size : Sizes, mtimeMs : LocalMtimes]
StatResults ==
    {StatThrown, StatNull} \cup {StatOf(sz, mt) : sz \in Sizes, mt \in RemoteMtimes}

ClassInit ==
    /\ cLocal \in LocalStats
    /\ cStat \in StatResults
    /\ cOut = "none"
    /\ PathIdle
    /\ SyncIdle
    /\ ShellIdle
    /\ TreeIdle
    /\ MountIdle
    /\ AuxIdle

ApplyShouldUpload ==
    /\ cOut = "none"
    /\ cOut' = IF shouldUpload(cStat, cLocal) THEN "upload" ELSE "skip"
    /\ UNCHANGED <<cLocal, cStat, pathVars, syncVars, shellVars, treeVars, mountVars, auxVars>>

ClassNext == ApplyShouldUpload

SpecClassify == ClassInit /\ [][ClassNext]_vars

RemoteAbsent == cStat.kind \in {"thrown", "null"}

\* C6, as claimed: a file is classified as upload exactly when the remote file is
\* absent, or the sizes differ, or the local modification time exceeds the remote
\* modification time by more than 2 seconds.
C6_UploadIffClaimed ==
    cOut # "none" =>
        (cOut = "upload" <=>
                  \/ RemoteAbsent
                  \/ cStat.size # cLocal.size
                  \/ cLocal.mtimeMs - cStat.modifyTime * 1000 > 2000)

\* What shouldUpload computes instead of C6: upload exactly when the remote file
\* is absent, or the sizes differ, or the remote modification time is non-zero
\* and the local modification time exceeds it by more than 2 seconds.
C6_UploadIffKnownMtimeOlder ==
    cOut # "none" =>
        (cOut = "upload" <=>
                  \/ RemoteAbsent
                  \/ cStat.size # cLocal.size
                  \/ /\ cStat.modifyTime > 0
                     /\ cLocal.mtimeMs - cStat.modifyTime * 1000 > 2000)

\* the modification-time rule decides: equal sizes, local just over 2 seconds newer
C6_UploadedForMtimeOnly ==
    /\ cOut = "upload"
    /\ cStat.kind = "stat"
    /\ cStat.size = cLocal.size
    /\ cStat.modifyTime = 1
    /\ cLocal.mtimeMs = 3001

----------------------------------------------------------------------------
(* The remote tree behind an SFTP session, and the ssh2-sftp-client calls the  *)
(* code makes on it.  A remote path is the sequence of its segments; the tree  *)
(* maps each existing path to [type |-> "d" or "-", size, mtime (seconds)].    *)

\* the remote "/" always exists
RootPath == <<>>

DirEntry == [type |-> "d", size |-> 0, mtime |-> 1]
FileEntry(size, mtime) == [type |-> "-", size |-> size, mtime |-> mtime]

\* the remote clock (seconds) that stamps an uploaded file
NowSec == MaxSec + 1

Parent(path) == SubSeq(path, 1, Len(path) - 1)
LastSeg(path) == path[Len(path)]
IsUnder(path, dir) == Len(path) > Len(dir) /\ SubSeq(path, 1, Len(dir)) = dir

\* the order in which a directory listing returns names
NameOrder == <<".DS_Store", "a", "b", "c", "o">>

\* a remote call that the model records: the operation and the path it is given
Call(op, path) == [op |-> op, path |-> path]
MutatingOps == {"mkdir", "put", "delete", "rmdir"}
ReadOnlyOps == {"stat", "exists", "list"}

\* client.stat(path): rejects when the path is absent
ClientStat(fs, path) ==
    IF path \in DOMAIN fs THEN StatOf(fs[path].size, fs[path].mtime) ELSE StatThrown

\* client.exists(path): false ("none"), "d" or "-"
ClientExists(fs, path) == IF path \in DOMAIN fs THEN fs[path].type ELSE "none"

\* client.list(dir): the entries of dir, as names; rejects unless dir is a directory
ClientListOk(fs, dir) == dir \in DOMAIN fs /\ fs[dir].type = "d"
ClientList(fs, dir) == SelectSeq(NameOrder, LAMBDA n : Append(dir, n) \in DOMAIN fs)

\* client.mkdir(dir, true): creates dir and its missing ancestors; rejects when a
\* path on the way is a file
Ancestors(path) == {SubSeq(path, 1, k) : k \in 0..Len(path)}
ClientMkdirOk(fs, dir) == \A a \in Ancestors(dir) : a \in DOMAIN fs => fs[a].type = "d"
ClientMkdir(fs, dir) ==
    [q \in DOMAIN fs \cup Ancestors(dir) |-> IF q \in DOMAIN fs THEN fs[q] ELSE DirEntry]

\* client.put(local, path): writes the file; rejects when the parent is not a
\* directory or the path is a directory
ClientPutOk(fs, path) ==
    /\ path # RootPath
    /\ Parent(path) \in DOMAIN fs /\ fs[Parent(path)].type = "d"
    /\ path \in DOMAIN fs => fs[path].type = "-"
ClientPut(fs, path, size) ==
    [q \in DOMAIN fs \cup {path} |-> IF q = path THEN FileEntry(size, NowSec) ELSE fs[q]]

\* client.delete(path): removes a file; rejects when it is absent or a directory
ClientDeleteOk(fs, path) == path \in DOMAIN fs /\ fs[path].type = "-"
ClientDelete(fs, path) == [q \in DOMAIN fs \ {path} |-> fs[q]]

\* client.rmdir(dir, true): removes dir and everything under it
ClientRmdirOk(fs, dir) == dir \in DOMAIN fs /\ fs[dir].type = "d" /\ dir # RootPath
ClientRmdir(fs, dir) ==
    [q \in {x \in DOMAIN fs : x # dir /\ ~IsUnder(x, dir)} |-> fs[q]]

----------------------------------------------------------------------------
(* sftp/client.ts: the remote tree primitives.  Each gives                     *)
(* [ok, fs, calls]: whether it returned (or threw), the tree it leaves, and    *)
(* the remote calls it made, in order.                                         *)

Outcome(ok, fs, calls) == [ok |-> ok, fs |-> fs, calls |-> calls]

\* an ensureRemoteDir that issues mkdir whatever client.exists answered
ensureRemoteDir_AlwaysMkdir(fs, remoteDir) ==
    LET calls == <<Call("exists", remoteDir), Call("mkdir", remoteDir)>>
    IN  IF ClientMkdirOk(fs, remoteDir)
        THEN Outcome(TRUE, ClientMkdir(fs, remoteDir), calls)
        ELSE Outcome(FALSE, fs, calls)

ensureRemoteDir(fs, remoteDir) ==
    IF ClientExists(fs, remoteDir) # "none"
    THEN Outcome(TRUE, fs, <<Call("exists", remoteDir)>>)
    ELSE LET calls == <<Call("exists", remoteDir), Call("mkdir", remoteDir)>>
         IN  IF ClientMkdirOk(fs, remoteDir)
             THEN Outcome(TRUE, ClientMkdir(fs, remoteDir), calls)
             ELSE Outcome(FALSE, fs, calls)

RECURSIVE removeRemoteRecursive(_, _)
RECURSIVE RemoveEntries(_, _, _, _)

\* a loop that leaves the entries to the recursive rmdir that follows
RemoveEntries_Skip(fs, remotePath, names, calls) == Outcome(TRUE, fs, calls)

\* the loop over the entries of a directory: a directory entry is removed
\* recursively, any other entry is deleted
RemoveEntries(fs, remotePath, names, calls) ==
    IF names = <<>> THEN Outcome(TRUE, fs, calls)
    ELSE LET child == Append(remotePath, Head(names))
             one == IF fs[child].type = "d"
                    THEN removeRemoteRecursive(fs, child)
                    ELSE IF ClientDeleteOk(fs, child)
                         THEN Outcome(TRUE, ClientDelete(fs, child), <<Call("delete", child)>>)
                         ELSE Outcome(FALSE, fs, <<Call("delete", child)>>)
         IN  IF one.ok
             THEN RemoveEntries(one.fs, remotePath, Tail(names), calls \o one.calls)
             ELSE Outcome(FALSE, one.fs, calls \o one.calls)

removeRemoteRecursive(fs, remotePath) ==
    LET type == ClientExists(fs, remotePath)
        probe == <<Call("exists", remotePath)>>
    IN  IF type = "none" THEN Outcome(TRUE, fs, probe)
        ELSE IF type = "d"
        THEN LET inner == RemoveEntries(fs, remotePath, ClientList(fs, remotePath),
                                        probe \o <<Call("list", remotePath)>>)
                 calls == inner.calls \o <<Call("rmdir", remotePath)>>
             IN  IF ~inner.ok THEN inner
                 ELSE IF ClientRmdirOk(inner.fs, remotePath)
                      THEN Outcome(TRUE, ClientRmdir(inner.fs, remotePath), calls)
                      ELSE Outcome(FALSE, inner.fs, calls)
        ELSE LET calls == probe \o <<Call("delete", remotePath)>>
             IN  IF ClientDeleteOk(fs, remotePath)
                 THEN Outcome(TRUE, ClientDelete(fs, remotePath), calls)
                 ELSE Outcome(FALSE, fs, calls)

\* a clearing that removes the directory along with its entries
clearRemoteDir_RemovesDir(fs, remoteDir) == removeRemoteRecursive(fs, remoteDir)

clearRemoteDir(fs, remoteDir) ==
    LET type == ClientExists(fs, remoteDir)
        probe == <<Call("exists", remoteDir)>>
    IN  IF type = "none" THEN Outcome(TRUE, fs, probe)
        ELSE IF type # "d" THEN Outcome(FALSE, fs, probe)
        ELSE RemoveEntries(fs, remoteDir, ClientList(fs, remoteDir),
                           probe \o <<Call("list", remoteDir)>>)

----------------------------------------------------------------------------
(* SpecTree: ensureRemoteDir, removeRemoteRecursive and clearRemoteDir applied *)
(* to every bounded remote tree and path                                       *)

\* how many segments a remote path of the drawn trees may have
MaxTreeDepth == 3

TreeNames == {"a", "b"}

\* what may be at path p with d levels left below it: nothing, a file, or a
\* directory holding "a" (anything) and "b" (nothing or a file)
RECURSIVE SubTrees(_, _)
SubTrees(p, d) ==
    {<<>>, p :> FileEntry(1, 1)}
    \cup IF d = 0 THEN {p :> DirEntry}
         ELSE {(p :> DirEntry) @@ a @@ b :
                  a \in SubTrees(Append(p, "a"), d - 1),
                  b \in {<<>>, Append(p, "b") :> FileEntry(1, 1)}}

TreeInputs ==
    {(RootPath :> DirEntry) @@ a @@ b :
        a \in SubTrees(<<"a">>, MaxTreeDepth - 1),
        b \in {<<>>, <<"b">> :> FileEntry(1, 1)}}

TreePaths == SeqsUpTo(TreeNames, MaxTreeDepth)

TreeInit ==
    /\ tFs \in TreeInputs
    /\ tPath \in TreePaths
    /\ tFn = "none"
    /\ tOut = NoOutcome /\ tSecond = NoOutcome
    /\ PathIdle
    /\ ClassIdle
    /\ SyncIdle
    /\ ShellIdle
    /\ MountIdle
    /\ AuxIdle

ApplyEnsureRemoteDir ==
    /\ tFn = "none"
    /\ tFn' = "ensureRemoteDir"
    /\ tOut' = ensureRemoteDir(tFs, tPath)
    /\ UNCHANGED <<tFs, tPath, tSecond, pathVars, classVars, syncVars, shellVars, mountVars, auxVars>>

\* the same call once more, on the tree the first call left
ApplyEnsureRemoteDirAgain ==
    /\ tFn = "ensureRemoteDir"
    /\ tFn' = "ensureRemoteDirTwice"
    /\ tSecond' = ensureRemoteDir(tOut.fs, tPath)
    /\ UNCHANGED <<tFs, tPath, tOut, pathVars, classVars, syncVars, shellVars, mountVars, auxVars>>

ApplyRemoveRemoteRecursive ==
    /\ tFn = "none"
    /\ tFn' = "removeRemoteRecursive"
    /\ tOut' = removeRemoteRecursive(tFs, tPath)
    /\ UNCHANGED <<tFs, tPath, tSecond, pathVars, classVars, syncVars, shellVars, mountVars, auxVars>>

ApplyClearRemoteDir ==
    /\ tFn = "none"
    /\ tFn' = "clearRemoteDir"
    /\ tOut' = clearRemoteDir(tFs, tPath)
    /\ UNCHANGED <<tFs, tPath, tSecond, pathVars, classVars, syncVars, shellVars, mountVars, auxVars>>

TreeNext ==
    \/ ApplyEnsureRemoteDir
    \/ ApplyEnsureRemoteDirAgain
    \/ ApplyRemoveRemoteRecursive
    \/ ApplyClearRemoteDir

SpecTree == TreeInit /\ [][TreeNext]_vars

\* the calls of an outcome that change the remote tree
MutatingCalls(out) == SelectSeq(out.calls, LAMBDA c : c.op \in MutatingOps)
IsDirectory(fs, p) == p \in DOMAIN fs /\ fs[p].type = "d"
\* path p and everything below it
Subtree(fs, p) == {q \in DOMAIN fs : q = p \/ IsUnder(q, p)}
\* the first place a call stands at in the calls of an outcome (0: it is not there)
IndexOf(out, call) ==
    IF \E i \in 1..Len(out.calls) : out.calls[i] = call
    THEN CHOOSE i \in 1..Len(out.calls) :
            out.calls[i] = call /\ \A j \in 1..(i - 1) : out.calls[j] # call
    ELSE 0

\* C15: after ensureRemoteDir(dir) returned, dir and its ancestors are directories;
\* it issued mkdir when dir was not a directory before and no mutating call when
\* it was
C15_EnsuredIsDirectory ==
    (tFn = "ensureRemoteDir" /\ tOut.ok) =>
        /\ \A a \in Ancestors(tPath) : IsDirectory(tOut.fs, a)
        /\ ~IsDirectory(tFs, tPath) => MutatingCalls(tOut) = <<Call("mkdir", tPath)>>
        /\ IsDirectory(tFs, tPath) => MutatingCalls(tOut) = <<>> /\ tOut.fs = tFs

\* C16 as stated: a second ensureRemoteDir on the same path leaves the tree of the
\* first and issues no mutating call, whatever the tree and the path
C16_SecondCallNeverMutates ==
    tFn = "ensureRemoteDirTwice" => (tSecond.fs = tOut.fs /\ MutatingCalls(tSecond) = <<>>)

\* C16: a second ensureRemoteDir on the same path leaves the tree of the first; when
\* the first returned, the second returns too and issues no mutating call
C16_SecondCallAfterReturn ==
    tFn = "ensureRemoteDirTwice" =>
        /\ tSecond.fs = tOut.fs
        /\ tOut.ok => (tSecond.ok /\ MutatingCalls(tSecond) = <<>>)

\* the first call created a/a/a below an existing a; the second only probed it
C16_CreatedThenProbed ==
    /\ tFn = "ensureRemoteDirTwice" /\ tPath = <<"a", "a", "a">>
    /\ IsDirectory(tFs, <<"a">>) /\ <<"a", "a">> \notin DOMAIN tFs
    /\ tOut.ok /\ MutatingCalls(tOut) = <<Call("mkdir", tPath)>>
    /\ tSecond.ok /\ tSecond.calls = <<Call("exists", tPath)>>
    /\ IsDirectory(tSecond.fs, tPath)

\* C17: removeRemoteRecursive(path) issues no mutating call when path is absent;
\* when it returned for a present path, path and all below it are gone, every
\* entry below a directory was removed by a call of its own before the rmdir of
\* that directory, and every entry outside the subtree is as it was
C17_RemovesSubtreeChildrenFirst ==
    tFn = "removeRemoteRecursive" =>
        /\ tPath \notin DOMAIN tFs => (MutatingCalls(tOut) = <<>> /\ tOut.fs = tFs /\ tOut.ok)
        /\ (tPath \in DOMAIN tFs /\ tOut.ok) =>
              /\ Subtree(tOut.fs, tPath) = {}
              /\ \A q \in DOMAIN tFs \ Subtree(tFs, tPath) :
                    q \in DOMAIN tOut.fs /\ tOut.fs[q] = tFs[q]
              /\ DOMAIN tOut.fs \subseteq DOMAIN tFs
              /\ \A q \in Subtree(tFs, tPath) \ {tPath} :
                    LET mine == IndexOf(tOut, Call(IF tFs[q].type = "d" THEN "rmdir"
                                                   ELSE "delete", q))
                        parent == IndexOf(tOut, Call("rmdir", Parent(q)))
                    IN  0 < mine /\ mine < parent

\* a directory holding a file and a non-empty directory was removed
C17_NestedDirectoryRemoved ==
    /\ tFn = "removeRemoteRecursive" /\ tPath = <<"a">> /\ tOut.ok
    /\ <<"a", "a", "a">> \in DOMAIN tFs /\ <<"a", "b">> \in DOMAIN tFs
    /\ <<"b">> \in DOMAIN tFs /\ <<"b">> \in DOMAIN tOut.fs
    /\ Subtree(tOut.fs, <<"a">>) = {}

\* C18: clearRemoteDir(dir) on a file fails right after its probe and leaves the
\* tree as it was; on an absent dir it returns without a mutating call; on a
\* directory, when it returned, dir is still a directory and nothing is below it
C18_ClearsContentsOnly ==
    tFn = "clearRemoteDir" =>
        /\ (tPath \in DOMAIN tFs /\ tFs[tPath].type # "d") =>
              (~tOut.ok /\ tOut.fs = tFs /\ tOut.calls = <<Call("exists", tPath)>>)
        /\ tPath \notin DOMAIN tFs => (tOut.ok /\ MutatingCalls(tOut) = <<>> /\ tOut.fs = tFs)
        /\ (IsDirectory(tFs, tPath) /\ tOut.ok) =>
              /\ IsDirectory(tOut.fs, tPath)
              /\ Subtree(tOut.fs, tPath) = {tPath}
              /\ \A q \in DOMAIN tFs \ Subtree(tFs, tPath) :
                    q \in DOMAIN tOut.fs /\ tOut.fs[q] = tFs[q]

\* a directory with a file and a non-empty directory in it was cleared
C18_NestedDirectoryCleared ==
    /\ tFn = "clearRemoteDir" /\ tPath = <<"a">> /\ tOut.ok
    /\ <<"a", "a", "a">> \in DOMAIN tFs /\ <<"a", "b">> \in DOMAIN tFs
    /\ Subtree(tOut.fs, <<"a">>) = {<<"a">>}
    /\ MutatingCalls(tOut) # <<>>

----------------------------------------------------------------------------
(* sync/sync.ts *)

\* normalizedRemoteDir, as segments
TargetDir == <<"t">>

\* `${normalizedRemoteDir}/${relativePosix}`
RemotePathOf(rel) == TargetDir \o rel

\* DEFAULT_IGNORES: "**/.git/**", "**/.DS_Store", "**/node_modules/**"
Ignored(rel) ==
    \/ LastSeg(rel) = ".DS_Store"
    \/ \E k \in 1..(Len(rel) - 1) : rel[k] \in {".git", "node_modules"}

\* fast-glob over localDir: every regular file that no ignore pattern matches
Enumerate(local) == SelectSeq(local, LAMBDA f : ~Ignored(f.rel))

files == Enumerate(sLocal)

\* localSet of clean mode: the remote paths derived from the enumerated files
LocalSet == {RemotePathOf(files[i].rel) : i \in 1..Len(files)}

\* a plan entry that records the remote path where the relative path belongs
PlanEntry_RemoteRel(file) ==
    [rel |-> RemotePathOf(file.rel),
     remotePath |-> RemotePathOf(file.rel),
     remoteDirname |-> Parent(RemotePathOf(file.rel)),
     size |-> file.size]

PlanEntry(file) ==
    [rel |-> file.rel,
     remotePath |-> RemotePathOf(file.rel),
     remoteDirname |-> Parent(RemotePathOf(file.rel)),
     size |-> file.size]

\* a listing that does not descend into directories
listRemoteRecursive_Flat(fs, remoteDir) ==
    IF ~ClientListOk(fs, remoteDir)
    THEN [ok |-> FALSE, files |-> <<>>, calls |-> <<Call("list", remoteDir)>>]
    ELSE [ok |-> TRUE,
          files |-> [i \in 1..Len(SelectSeq(ClientList(fs, remoteDir),
                                   LAMBDA n : fs[Append(remoteDir, n)].type # "d"))
                     |-> Append(remoteDir,
                                SelectSeq(ClientList(fs, remoteDir),
                                   LAMBDA n : fs[Append(remoteDir, n)].type # "d")[i])],
          calls |-> <<Call("list", remoteDir)>>]

RECURSIVE listRemoteRecursive(_, _)
RECURSIVE ListEntries(_, _, _, _, _)

\* the loop over the entries of one listing
ListEntries(fs, remoteDir, names, results, calls) ==
    IF names = <<>> THEN [ok |-> TRUE, files |-> results, calls |-> calls]
    ELSE LET fullPath == Append(remoteDir, Head(names))
         IN  IF fs[fullPath].type = "d"
             THEN LET sub == listRemoteRecursive(fs, fullPath)
                  IN  IF sub.ok
                      THEN ListEntries(fs, remoteDir, Tail(names),
                                       results \o sub.files, calls \o sub.calls)
                      ELSE [ok |-> FALSE, files |-> <<>>, calls |-> calls \o sub.calls]
             ELSE ListEntries(fs, remoteDir, Tail(names), Append(results, fullPath), calls)

listRemoteRecursive(fs, remoteDir) ==
    IF ~ClientListOk(fs, remoteDir)
    THEN [ok |-> FALSE, files |-> <<>>, calls |-> <<Call("list", remoteDir)>>]
    ELSE ListEntries(fs, remoteDir, ClientList(fs, remoteDir), <<>>,
                     <<Call("list", remoteDir)>>)

\* the guards `if (!dryRun)` in front of ensureRemoteDir, putWithProgress and
\* removeRemoteRecursive
EnsuresDirs_Never == FALSE
EnsuresDirs == ~sOpt.dryRun
TransfersFiles == ~sOpt.dryRun
RemovesFiles_Ungated == TRUE
RemovesFiles == ~sOpt.dryRun

\* the environment may fail a remote call while the fault budget lasts
FaultChoices == IF sFaults < MaxFaults THEN {FALSE, TRUE} ELSE {FALSE}

\* a classification pass that creates the parent directory as soon as a file
\* is found to need uploading
ClassifyStep_EagerDir(fs, file, stat) ==
    LET upload == shouldUpload(stat, file)
        made == ensureRemoteDir(fs, Parent(RemotePathOf(file.rel)))
    IN  [upload |-> upload,
         fs |-> IF upload THEN made.fs ELSE fs,
         calls |-> <<Call("stat", RemotePathOf(file.rel))>>
                   \o (IF upload THEN made.calls ELSE <<>>)]

\* one pass of the classification loop: the remote calls it issues and the tree
\* it leaves
ClassifyStep(fs, file, stat) ==
    [upload |-> shouldUpload(stat, file),
     fs |-> fs,
     calls |-> <<Call("stat", RemotePathOf(file.rel))>>]

\* a failure that is swallowed: the loop goes on with the next entry
Fail_SkipEntry ==
    /\ sPc' = "execDir"
    /\ sIdx' = sIdx + 1
    /\ UNCHANGED <<sPlan, sSkipped, sUploaded, sDeleted, sRemoteDirs, sRemoteFiles>>

\* a rejected await: the exception leaves syncDirectory
Fail ==
    /\ sPc' = "failed"
    /\ UNCHANGED <<sIdx, sPlan, sSkipped, sUploaded, sDeleted, sRemoteDirs, sRemoteFiles>>

\* the loop `for (const file of files)`: stat the remote path and plan or skip
Classify ==
    /\ sPc = "classify"
    /\ sIdx <= Len(files)
    /\ \E fault \in FaultChoices :
        LET file == files[sIdx]
            stat == IF fault THEN StatThrown ELSE ClientStat(sRemote, RemotePathOf(file.rel))
            step == ClassifyStep(sRemote, file, stat)
        IN  /\ sFaults' = sFaults + (IF fault THEN 1 ELSE 0)
            /\ sRemote' = step.fs
            /\ sCalls' = sCalls \o step.calls
            /\ sPlan' = IF step.upload THEN Append(sPlan, PlanEntry(file)) ELSE sPlan
            /\ sSkipped' = IF step.upload THEN sSkipped ELSE Append(sSkipped, file.rel)
    /\ sIdx' = sIdx + 1
    /\ UNCHANGED <<sPc, sUploaded, sDeleted, sRemoteDirs, sRemoteFiles>>
    /\ UNCHANGED <<sLocal, sOpt, sRemote0, sFirst, pathVars, classVars, shellVars, treeVars, mountVars, auxVars>>

\* after the classification loop: totalBytes, the progress reporter, remoteDirs
BuildPlan ==
    /\ sPc = "classify"
    /\ sIdx > Len(files)
    /\ sPc' = "execDir"
    /\ sIdx' = 1
    /\ sRemoteDirs' = {}
    /\ UNCHANGED <<sRemote, sPlan, sSkipped, sUploaded, sDeleted, sRemoteFiles, sCalls, sFaults>>
    /\ UNCHANGED <<sLocal, sOpt, sRemote0, sFirst, pathVars, classVars, shellVars, treeVars, mountVars, auxVars>>

\* a memo that never remembers a directory
Ensured_Never(remoteDirs, remoteDirname) == FALSE

\* remoteDirs.has(entry.remoteDirname)
Ensured(remoteDirs, remoteDirname) == remoteDirname \in remoteDirs

\* the first half of an execution pass: ensure the parent directory once
ExecDir ==
    /\ sPc = "execDir"
    /\ sIdx <= Len(sPlan)
    /\ LET entry == sPlan[sIdx]
       IN  IF Ensured(sRemoteDirs, entry.remoteDirname)
           THEN /\ sPc' = "execPut"
                /\ UNCHANGED <<sRemote, sRemoteDirs, sCalls, sFaults>>
                /\ UNCHANGED <<sIdx, sPlan, sSkipped, sUploaded, sDeleted, sRemoteFiles>>
           ELSE IF ~EnsuresDirs
           THEN /\ sPc' = "execPut"
                /\ sRemoteDirs' = sRemoteDirs \cup {entry.remoteDirname}
                /\ UNCHANGED <<sRemote, sCalls, sFaults>>
                /\ UNCHANGED <<sIdx, sPlan, sSkipped, sUploaded, sDeleted, sRemoteFiles>>
           ELSE \E fault \in FaultChoices :
                LET made == ensureRemoteDir(sRemote, entry.remoteDirname)
                IN  /\ sFaults' = sFaults + (IF fault THEN 1 ELSE 0)
                    /\ IF fault
                       THEN /\ sCalls' = Append(sCalls, Call("exists", entry.remoteDirname))
                            /\ UNCHANGED <<sRemote, sRemoteDirs>>
                            /\ Fail
                       ELSE /\ sCalls' = sCalls \o made.calls
                            /\ sRemote' = made.fs
                            /\ IF made.ok
                               THEN /\ sPc' = "execPut"
                                    /\ sRemoteDirs' = sRemoteDirs \cup {entry.remoteDirname}
                                    /\ UNCHANGED <<sIdx, sPlan, sSkipped, sUploaded,
                                                   sDeleted, sRemoteFiles>>
                               ELSE /\ UNCHANGED sRemoteDirs
                                    /\ Fail
    /\ UNCHANGED <<sLocal, sOpt, sRemote0, sFirst, pathVars, classVars, shellVars, treeVars, mountVars, auxVars>>

\* the second half: transfer the file and record it as uploaded
ExecPut ==
    /\ sPc = "execPut"
    /\ LET entry == sPlan[sIdx]
           recorded == /\ sUploaded' = Append(sUploaded, entry.rel)
                       /\ sIdx' = sIdx + 1
                       /\ sPc' = "execDir"
                       /\ UNCHANGED <<sPlan, sSkipped, sDeleted, sRemoteDirs, sRemoteFiles>>
       IN  IF ~TransfersFiles
           THEN /\ recorded
                /\ UNCHANGED <<sRemote, sCalls, sFaults>>
           ELSE \E fault \in FaultChoices :
                /\ sFaults' = sFaults + (IF fault THEN 1 ELSE 0)
                /\ sCalls' = Append(sCalls, Call("put", entry.remotePath))
                /\ IF fault
                   THEN \* the stream broke: nothing, or a partial file, is left
                        /\ \E partial \in {FALSE, TRUE} :
                             sRemote' = IF partial /\ ClientPutOk(sRemote, entry.remotePath)
                                        THEN ClientPut(sRemote, entry.remotePath, 0)
                                        ELSE sRemote
                        /\ Fail
                   ELSE IF ClientPutOk(sRemote, entry.remotePath)
                        THEN /\ sRemote' = ClientPut(sRemote, entry.remotePath, entry.size)
                             /\ recorded
                        ELSE /\ UNCHANGED sRemote
                             /\ Fail
    /\ UNCHANGED <<sLocal, sOpt, sRemote0, sFirst, pathVars, classVars, shellVars, treeVars, mountVars, auxVars>>

\* an execution loop that can be left while plan entries remain
ExecFinish_Early ==
    /\ sPc = "execDir"
    /\ sPc' = IF sOpt.clean THEN "cleanList" ELSE "return"
    /\ sIdx' = 1
    /\ UNCHANGED <<sRemote, sPlan, sSkipped, sUploaded, sDeleted, sRemoteDirs,
                   sRemoteFiles, sCalls, sFaults>>
    /\ UNCHANGED <<sLocal, sOpt, sRemote0, sFirst, pathVars, classVars, shellVars, treeVars, mountVars, auxVars>>

\* the end of the execution loop and its `finally`
ExecFinish ==
    /\ sPc = "execDir"
    /\ sIdx > Len(sPlan)
    /\ sPc' = IF sOpt.clean THEN "cleanList" ELSE "return"
    /\ sIdx' = 1
    /\ UNCHANGED <<sRemote, sPlan, sSkipped, sUploaded, sDeleted, sRemoteDirs,
                   sRemoteFiles, sCalls, sFaults>>
    /\ UNCHANGED <<sLocal, sOpt, sRemote0, sFirst, pathVars, classVars, shellVars, treeVars, mountVars, auxVars>>

\* clean mode: list the whole remote subtree
CleanList ==
    /\ sPc = "cleanList"
    /\ \E fault \in FaultChoices :
        LET listed == listRemoteRecursive(sRemote, TargetDir)
        IN  /\ sFaults' = sFaults + (IF fault THEN 1 ELSE 0)
            /\ IF fault
               THEN /\ sCalls' = Append(sCalls, Call("list", TargetDir))
                    /\ Fail
               ELSE /\ sCalls' = sCalls \o listed.calls
                    /\ IF listed.ok
                       THEN /\ sRemoteFiles' = listed.files
                            /\ sPc' = "cleanDel"
                            /\ sIdx' = 1
                            /\ UNCHANGED <<sPlan, sSkipped, sUploaded, sDeleted, sRemoteDirs>>
                       ELSE Fail
    /\ UNCHANGED sRemote
    /\ UNCHANGED <<sLocal, sOpt, sRemote0, sFirst, pathVars, classVars, shellVars, treeVars, mountVars, auxVars>>

\* clean mode: one pass of the deletion loop
CleanDelete ==
    /\ sPc = "cleanDel"
    /\ sIdx <= Len(sRemoteFiles)
    /\ LET remoteFile == sRemoteFiles[sIdx]
           next == /\ sIdx' = sIdx + 1
                   /\ UNCHANGED <<sPc, sPlan, sSkipped, sUploaded, sRemoteDirs, sRemoteFiles>>
       IN  IF remoteFile \in LocalSet
           THEN /\ next
                /\ UNCHANGED <<sRemote, sDeleted, sCalls, sFaults>>
           ELSE IF ~RemovesFiles
           THEN /\ next
                /\ sDeleted' = Append(sDeleted, remoteFile)
                /\ UNCHANGED <<sRemote, sCalls, sFaults>>
           ELSE \E fault \in FaultChoices :
                LET removed == removeRemoteRecursive(sRemote, remoteFile)
                IN  /\ sFaults' = sFaults + (IF fault THEN 1 ELSE 0)
                    /\ IF fault
                       THEN /\ sCalls' = Append(sCalls, Call("exists", remoteFile))
                            /\ UNCHANGED <<sRemote, sDeleted>>
                            /\ Fail
                       ELSE /\ sCalls' = sCalls \o removed.calls
                            /\ sRemote' = removed.fs
                            /\ IF removed.ok
                               THEN /\ next
                                    /\ sDeleted' = Append(sDeleted, remoteFile)
                               ELSE /\ UNCHANGED sDeleted
                                    /\ Fail
    /\ UNCHANGED <<sLocal, sOpt, sRemote0, sFirst, pathVars, classVars, shellVars, treeVars, mountVars, auxVars>>

\* return { uploaded, skipped, deleted }
Return ==
    /\ \/ sPc = "return"
       \/ sPc = "cleanDel" /\ sIdx > Len(sRemoteFiles)
    /\ sPc' = "done"
    /\ UNCHANGED <<sRemote, sIdx, sPlan, sSkipped, sUploaded, sDeleted, sRemoteDirs,
                   sRemoteFiles, sCalls, sFaults>>
    /\ UNCHANGED <<sLocal, sOpt, sRemote0, sFirst, pathVars, classVars, shellVars, treeVars, mountVars, auxVars>>

\* the entry of syncDirectory: empty result lists and plan, first file
EnterSync(dryRun) ==
    /\ sOpt' = [sOpt EXCEPT !.dryRun = dryRun]
    /\ sRemote' = sRemote0
    /\ sPc' = "classify"
    /\ sIdx' = 1
    /\ sPlan' = <<>> /\ sSkipped' = <<>> /\ sUploaded' = <<>> /\ sDeleted' = <<>>
    /\ sRemoteDirs' = {} /\ sRemoteFiles' = <<>> /\ sCalls' = <<>> /\ sFaults' = 0

\* the dry run has ended; the same sync is now called with dryRun = false on the
\* same local tree and the same remote state
CallAgain ==
    /\ sPc \in {"done", "failed"}
    /\ sFirst.state = "none"
    /\ sFirst' = [state |-> sPc, uploaded |-> sUploaded, skipped |-> sSkipped,
                  deleted |-> sDeleted, faults |-> sFaults]
    /\ EnterSync(FALSE)
    /\ UNCHANGED <<sLocal, sRemote0, pathVars, classVars, shellVars, treeVars, mountVars, auxVars>>

----------------------------------------------------------------------------
(* SpecSync: syncDirectory called as a dry run and then, on the same local     *)
(* tree and the same remote state, with dryRun = false                         *)

SyncSizes == 1..MaxSize
\* a local file as old as the remote copy, or newer than the tolerance allows
SyncLocalMtimes == {1000, MaxSec * 1000 + 1}

FileA == <<"a">>
FileBC == <<"b", "c">>
FileDS == <<".DS_Store">>
OrphanBO == <<"b", "o">>

LocalFile(rel, size, mtimeMs) == [rel |-> rel, size |-> size, mtimeMs |-> mtimeMs]

\* a local file is absent, or present with some size and modification time
LocalChoices(rel) ==
    {<<>>} \cup {<<LocalFile(rel, sz, mt)>> : sz \in SyncSizes, mt \in SyncLocalMtimes}

LocalTrees ==
    {a \o bc \o ds : a \in LocalChoices(FileA), bc \in LocalChoices(FileBC),
                      ds \in {<<>>, <<LocalFile(FileDS, 1, 1000)>>}}

\* a remote file is absent, or present with some size
RemoteChoices(path) == {<<>>} \cup {path :> FileEntry(sz, 1) : sz \in SyncSizes}

\* remote "b": absent, a file, or a directory that may hold "c" and the orphan "o"
RemoteBChoices ==
    {<<>>, RemotePathOf(<<"b">>) :> FileEntry(1, 1)}
    \cup {(RemotePathOf(<<"b">>) :> DirEntry) @@ c @@ o :
             c \in RemoteChoices(RemotePathOf(FileBC)),
             o \in {<<>>, RemotePathOf(OrphanBO) :> FileEntry(1, 1)}}

\* the remote tree: the target directory is absent, or a directory with any of
\* "a", "b" and ".DS_Store" in it
RemoteTrees ==
    {RootPath :> DirEntry}
    \cup {(RootPath :> DirEntry) @@ (TargetDir :> DirEntry) @@ a @@ b @@ ds :
             a \in RemoteChoices(RemotePathOf(FileA)),
             b \in RemoteBChoices,
             ds \in {<<>>, RemotePathOf(FileDS) :> FileEntry(1, 1)}}

SyncInit ==
    /\ sLocal \in LocalTrees
    /\ sOpt \in [clean : BOOLEAN, dryRun : {TRUE}]
    /\ sRemote0 \in RemoteTrees
    /\ sRemote = sRemote0
    /\ sPc = "classify"
    /\ sIdx = 1
    /\ sPlan = <<>> /\ sSkipped = <<>> /\ sUploaded = <<>> /\ sDeleted = <<>>
    /\ sRemoteDirs = {} /\ sRemoteFiles = <<>> /\ sCalls = <<>> /\ sFaults = 0
    /\ sFirst = [state |-> "none", uploaded |-> <<>>, skipped |-> <<>>,
                 deleted |-> <<>>, faults |-> 0]
    /\ PathIdle
    /\ ClassIdle
    /\ ShellIdle
    /\ TreeIdle
    /\ MountIdle
    /\ AuxIdle

SyncNext ==
    \/ Classify
    \/ BuildPlan
    \/ ExecDir
    \/ ExecPut
    \/ ExecFinish
    \/ CleanList
    \/ CleanDelete
    \/ Return
    \/ CallAgain

SpecSync == SyncInit /\ [][SyncNext]_vars

IsMutating(call) == call.op \in MutatingOps
Classified == Len(sPlan) + Len(sSkipped)
SeqToSet(q) == {q[i] : i \in 1..Len(q)}
NoDuplicates(q) == \A i, j \in 1..Len(q) : q[i] = q[j] => i = j

\* C7: syncDirectory is two-phase.  While it classifies it has issued only stat
\* calls; once any mutating call (mkdir, put, delete, rmdir) has been issued,
\* every enumerated file has been classified, and no stat call follows a
\* mutating call.
C7_ClassifyBeforeMutation ==
    /\ sPc = "classify" => \A i \in 1..Len(sCalls) : sCalls[i].op = "stat"
    /\ (\E i \in 1..Len(sCalls) : IsMutating(sCalls[i])) => Classified = Len(files)
    /\ \A i, j \in 1..Len(sCalls) :
         (i < j /\ IsMutating(sCalls[i])) => sCalls[j].op # "stat"

\* C7 witness: two files were classified, one planned and one skipped, and the
\* execution phase has since issued a mutating call
C7_MutationAfterClassification ==
    /\ Len(files) = 2
    /\ Len(sPlan) = 1
    /\ Len(sSkipped) = 1
    /\ \E i \in 1..Len(sCalls) : IsMutating(sCalls[i])

\* C8: a dry run issues no mutating remote call and leaves the remote tree as
\* it was, for either value of clean.
C8_DryRunNeverMutates ==
    sOpt.dryRun =>
        /\ \A i \in 1..Len(sCalls) : ~IsMutating(sCalls[i])
        /\ sRemote = sRemote0

\* C8 witness: a dry run with clean set has returned with files to upload and
\* files to delete
C8_DryRunWithWorkDone ==
    /\ sOpt.dryRun
    /\ sOpt.clean
    /\ sPc = "done"
    /\ sUploaded # <<>>
    /\ sDeleted # <<>>

\* C9, as claimed: on the same local tree, remote state and clean option, and
\* with no I/O failure injected into either call, when the call with
\* dryRun = false returns, the dry run has returned the same uploaded and
\* skipped lists.
C9_DryRunSameLists ==
    (sFirst.state # "none" /\ sPc = "done" /\ sFaults = 0 /\ sFirst.faults = 0) =>
        /\ sFirst.state = "done"
        /\ sFirst.uploaded = sUploaded
        /\ sFirst.skipped = sSkipped

\* the non-directory entries of a remote tree below a directory
RemoteFilesUnder(fs, dir) == {q \in DOMAIN fs : IsUnder(q, dir) /\ fs[q].type # "d"}

\* C10, as claimed: after a sync with clean set, deleted holds, each once,
\* exactly the remote files under the target directory that have no
\* corresponding local file.
C10_DeletedHaveNoLocalFile ==
    (sPc = "done" /\ sOpt.clean) =>
        /\ NoDuplicates(sDeleted)
        /\ SeqToSet(sDeleted) =
             {q \in RemoteFilesUnder(sRemote0, TargetDir) :
                 ~\E i \in 1..Len(sLocal) : RemotePathOf(sLocal[i].rel) = q}

\* C10, amended: deleted holds, each once, exactly the remote files under the
\* target directory that have no corresponding enumerated local file; a local
\* file that the ignore set excludes counts as absent.
C10_DeletedHaveNoEnumeratedFile ==
    (sPc = "done" /\ sOpt.clean) =>
        /\ NoDuplicates(sDeleted)
        /\ SeqToSet(sDeleted) =
             {q \in RemoteFilesUnder(sRemote0, TargetDir) :
                 ~\E i \in 1..Len(sLocal) :
                     ~Ignored(sLocal[i].rel) /\ RemotePathOf(sLocal[i].rel) = q}

\* C10 witness: a clean sync returned having deleted the orphan b/o and the
\* remote .DS_Store, whose local counterpart exists but is ignored
C10_OrphanAndIgnoredDeleted ==
    /\ sPc = "done"
    /\ sOpt.clean
    /\ ~sOpt.dryRun
    /\ \E i \in 1..Len(sLocal) : sLocal[i].rel = FileDS
    /\ SeqToSet(sDeleted) = {RemotePathOf(FileDS), RemotePathOf(OrphanBO)}
    /\ RemotePathOf(FileDS) \notin DOMAIN sRemote
    /\ RemotePathOf(OrphanBO) \notin DOMAIN sRemote

\* the calls of one kind, and where a call stands in the sequence of calls
CallsOf(ops) == SelectSeq(sCalls, LAMBDA c : c.op \in ops)
InExecution == sPc \in {"execDir", "execPut"}

\* C11: a remote call that fails while syncDirectory classifies aborts the call
\* at once (the call has failed) and the remote tree is as it was on entry
C11_ClassifyFailureAborts ==
    [][(sPc = "classify" /\ sFaults' > sFaults) => (sPc' = "failed" /\ sRemote' = sRemote0)]_vars

\* every file recorded as uploaded is on the remote with the size of its plan entry
UploadedInPlace(fs) ==
    \A i \in 1..Len(sUploaded) :
        /\ sPlan[i].rel = sUploaded[i]
        /\ sPlan[i].remotePath \in DOMAIN fs
        /\ fs[sPlan[i].remotePath] = FileEntry(sPlan[i].size, NowSec)

\* C12: a failure of ensureRemoteDir or of a transfer in the execution phase leaves
\* syncDirectory as a failure; the files uploaded before it stay in place, no later
\* entry is transferred, nothing is listed or deleted, and the failed call takes no
\* further step
C12_ExecFailureStopsThere ==
    [][/\ (InExecution /\ sFaults' > sFaults) => sPc' = "failed"
       /\ (InExecution /\ sPc' = "failed") =>
             /\ sUploaded' = sUploaded /\ sDeleted' = <<>>
             /\ ~sOpt.dryRun => UploadedInPlace(sRemote')
             /\ \A i \in 1..Len(sCalls') : sCalls'[i].op \notin {"list", "delete", "rmdir"}
             /\ Len(SelectSeq(sCalls', LAMBDA c : c.op = "put")) <= Len(sUploaded) + 1
       /\ sPc = "failed" => (sCalls' = <<>> /\ sPc' = "classify" /\ sFirst'.state = "failed")
      ]_vars

\* the second transfer of a real, cleaning sync failed after the first was written
C12_FailedAfterFirstUpload ==
    /\ sPc = "failed" /\ ~sOpt.dryRun /\ sOpt.clean
    /\ Len(sUploaded) = 1 /\ Len(sPlan) = 2
    /\ UploadedInPlace(sRemote)
    /\ Len(CallsOf({"put"})) = 2
    /\ CallsOf({"list", "delete", "rmdir"}) = <<>>

\* C13: every put is preceded by the ensureRemoteDir of its parent directory, which
\* returned
C13_ParentEnsuredBeforePut ==
    \A i \in 1..Len(sCalls) :
        sCalls[i].op = "put" =>
            /\ Parent(sCalls[i].path) \in sRemoteDirs
            /\ \E j \in 1..(i - 1) : sCalls[j] = Call("exists", Parent(sCalls[i].path))

\* a file was put into a directory that this sync created
C13_PutIntoCreatedDir ==
    \E i, j, k \in 1..Len(sCalls) :
        /\ i < j /\ j < k
        /\ sCalls[i] = Call("exists", RemotePathOf(<<"b">>))
        /\ sCalls[j] = Call("mkdir", RemotePathOf(<<"b">>))
        /\ sCalls[k] = Call("put", RemotePathOf(FileBC))

\* C14: once a deletion has been issued, every planned upload has been transferred:
\* all puts of the plan come before the first delete or rmdir
C14_DeletionsAfterAllUploads ==
    \A i \in 1..Len(sCalls) :
        sCalls[i].op \in {"delete", "rmdir"} =>
            /\ Len(sUploaded) = Len(sPlan)
            /\ Len(SelectSeq(SubSeq(sCalls, 1, i), LAMBDA c : c.op = "put")) = Len(sPlan)
            /\ \A k \in (i + 1)..Len(sCalls) : sCalls[k].op # "put"

\* a cleaning sync that uploaded two files and then deleted an orphan
C14_UploadsThenDeletion ==
    /\ sPc = "done" /\ sOpt.clean /\ ~sOpt.dryRun
    /\ Len(sPlan) = 2 /\ Len(CallsOf({"put"})) = 2
    /\ sDeleted # <<>> /\ CallsOf({"delete"}) # <<>>

----------------------------------------------------------------------------
(* shell.ts: the interactive shell, one top-level command at a time *)

\* `/home/${username}/domains/${domain}`, written with one-letter segments
HomeDomainDir == <<"/", "h", "/", "d">>
\* `/home/${username}/domains/${domain}/public_html`
HomeRoot == HomeDomainDir \o DefaultRoot
\* what client.realPath(".") answers: the login directory of the account
RealPathDot == <<"/", "h">>

\* how far below its root a cd may take the working directory (characters)
MaxCdExtra == 2

\* the remote argument a user types; <<>> is "no argument"
ShellTargets == {<<>>, <<".">>, <<"a">>, <<".", ".">>, <<"/", "a", "a">>}
\* the argument of `root <absolutePath>`
RootArgs == {<<"/", "a">>}
\* the remote root typed at the credential prompt (its default is /public_html)
PromptRoots == {DefaultRoot, <<"a">>}
\* commands that resolve a remote path and then work in a session
PathCommands == {"cd", "ls", "mkdir", "rm", "put", "get", "replace", "update", "open", "mount"}
\* commands that read the local disk before they resolve the remote path
LocalFirst == {"put", "replace", "update"}

resolveTarget(site, target) ==
    LET cwd == IF site.remoteCwd # <<>> THEN site.remoteCwd ELSE OrDefaultRoot(site.remoteRoot)
        resolved == resolveFromCwd(site.remoteRoot, cwd, target)
    IN  ensureWithinRoot(site.remoteRoot, resolved)

\* `site.remoteCwd || site.remoteRoot`, used as it is when no remote argument is given
CwdOrRoot(site) == IF site.remoteCwd # <<>> THEN site.remoteCwd ELSE site.remoteRoot

\* the remote path a command works on: [ok, value, escaped]
Resolution(r) == [ok |-> r.ok, value |-> r.value, escaped |-> ~r.ok]
UsageError == [ok |-> FALSE, value |-> <<>>, escaped |-> FALSE]
CommandPath(name, arg, site) ==
    IF arg # <<>> THEN Resolution(resolveTarget(site, arg))
    ELSE IF name \in {"ls", "replace", "update"}
         THEN IF CwdOrRoot(site) = <<>> THEN UsageError
              ELSE [ok |-> TRUE, value |-> CwdOrRoot(site), escaped |-> FALSE]
    ELSE IF name \in {"open", "mount"} THEN Resolution(resolveTarget(site, Dot))
    ELSE IF name = "put" THEN Resolution(resolveTarget(site, <<"a">>))
    ELSE UsageError

\* a directory entry below p, as listing, download, clearing and sync address it
ChildOf(p) == PosixJoin(p, <<"a">>)

\* the remote paths the session operations of a command's handler receive
HandlerPaths(name, stage, resolved) ==
    IF name = "put" THEN {PosixDirname(resolved), resolved}
    ELSE IF name \in {"rm", "get", "replace", "update"} THEN {resolved, ChildOf(resolved)}
    ELSE IF name = "open" /\ stage = "download" THEN {resolved, ChildOf(resolved)}
    ELSE {resolved}

\* the candidates autoDetectRoot probes, in order
Candidates(site, fallbackRoot) ==
    <<HomeRoot, HomeDomainDir>>
    \o (IF fallbackRoot # <<>> THEN <<fallbackRoot>> ELSE <<>>)
    \o <<OrDefaultRoot(site.remoteRoot), RealPathDot>>

\* autoDetectRoot when candidate k is the first that is a directory (k = 0: none is)
DetectChoices(site, fallbackRoot) ==
    LET c == Candidates(site, fallbackRoot)
    IN  {k \in 0..Len(c) :
            k > 0 => \A j \in 1..(k - 1) : normalizeRemotePath(c[j]) # normalizeRemotePath(c[k])}
DetectProbed(site, fallbackRoot, k) ==
    LET c == Candidates(site, fallbackRoot)
    IN  {normalizeRemotePath(c[j]) : j \in 1..(IF k = 0 THEN Len(c) ELSE k)}
autoDetectRoot(site, fallbackRoot, k) ==
    LET c == Candidates(site, fallbackRoot)
    IN  IF k = 0 THEN site
        ELSE [site EXCEPT !.remoteRoot = normalizeRemotePath(c[k]),
                          !.remoteCwd = normalizeRemotePath(c[k])]

\* ensureSftp finds credentials of another saved site it can reuse
Reusable(others) == others.n > 0 /\ (others.match \/ others.n = 1)

\* one path handed to a session operation, with the root in force at that moment
Op(by, path, root) == [by |-> by, path |-> path, root |-> root]

\* a close that runs only when the guarded block returned normally
DetectReleases_OnReturnOnly(threw) == IF threw THEN 0 ELSE 1
\* ensureSftp: `finally { await close(); }` around autoDetectRoot
DetectReleases(threw) == 1

HandlerReleases_OnReturnOnly(threw) == IF threw THEN 0 ELSE 1
\* withSftp: `finally { await close(); }` around the handler
HandlerReleases(threw) == 1

\* what client.exists may answer for the commands that look at it
TypeChoices(name) ==
    IF name \in {"cd", "rm", "get", "open", "mount"} THEN {"none", "d", "-"} ELSE {"none"}

\* the handler throws on its own account for these answers of client.exists
HandlerRejects(name, stage, type) ==
    \/ name = "cd" /\ type # "d"
    \/ name \in {"rm", "get"} /\ type = "none"
    \/ name = "open" /\ stage = "download" /\ type = "none"

End_FailureEscapes(result) ==
    hPc' = (IF result = "failed" THEN "exited" ELSE "done") /\ hResult' = result

\* the command is over: the catch of startShell logged a failure, or the command
\* ran to its `continue`
End(result) == hPc' = "done" /\ hResult' = result

\* a command line was read: its bookkeeping is that of a fresh command
Begin(cmd) == hCmd' = cmd /\ UNCHANGED <<hOpened, hOps, hPrompted>>

otherVars == <<pathVars, classVars, syncVars, treeVars, mountVars, auxVars>>

\* the while loop of startShell asks for the next line
AskNextLine ==
    /\ hPc = "done"
    /\ hPc' = "prompt" /\ hCmd' = NoCmd
    /\ hOpened' = 0 /\ hOps' = {} /\ hPrompted' = FALSE /\ hResult' = "none"
    /\ UNCHANGED <<hSite, hOthers, hDarwin, hOpen, readerVars, otherVars>>

\* any site command typed while no site is connected
NoActiveSite ==
    /\ hPc = "prompt" /\ ~hSite.active
    /\ \E name \in PathCommands : Begin([NoCmd EXCEPT !.name = name])
    /\ End("failed")
    /\ UNCHANGED <<hSite, hOthers, hDarwin, hOpen, readerVars, otherVars>>

\* connect <domain>
handleConnect ==
    /\ hPc = "prompt"
    /\ Begin([NoCmd EXCEPT !.name = "connect"])
    /\ \E found \in BOOLEAN, withUsername \in BOOLEAN :
          IF ~found
          THEN End("failed") /\ UNCHANGED hSite
          ELSE LET root == IF withUsername THEN HomeRoot ELSE OrDefaultRoot(hSite.remoteRoot)
               IN  /\ hSite' = [hSite EXCEPT !.active = TRUE, !.remoteRoot = root,
                                  !.remoteCwd = IF hSite.remoteCwd # <<>> THEN hSite.remoteCwd ELSE root]
                   /\ End("ok")
    /\ UNCHANGED <<hOthers, hDarwin, hOpen, readerVars, otherVars>>

\* root <absolutePath>
RootCommand ==
    /\ hPc = "prompt" /\ hSite.active
    /\ Begin([NoCmd EXCEPT !.name = "root"])
    /\ \E arg \in RootArgs :
          hSite' = [hSite EXCEPT !.remoteRoot = normalizeRemotePath(arg),
                                 !.remoteCwd = normalizeRemotePath(arg)]
    /\ End("ok")
    /\ UNCHANGED <<hOthers, hDarwin, hOpen, readerVars, otherVars>>

\* root auto
RootAuto ==
    /\ hPc = "prompt" /\ hSite.active
    /\ Begin([NoCmd EXCEPT !.name = "root", !.stage = "main"])
    /\ hPc' = "ensure"
    /\ UNCHANGED <<hSite, hOthers, hDarwin, hOpen, hResult, readerVars, otherVars>>

\* cd without an argument
CdHome ==
    /\ hPc = "prompt" /\ hSite.active
    /\ Begin([NoCmd EXCEPT !.name = "cd"])
    /\ hSite' = [hSite EXCEPT !.remoteCwd = hSite.remoteRoot]
    /\ End("ok")
    /\ UNCHANGED <<hOthers, hDarwin, hOpen, readerVars, otherVars>>

\* cd, ls, mkdir, rm, put, get, replace, update, open, mount up to the call of withSftp
StartCommand(name, arg) ==
    /\ hPc = "prompt" /\ hSite.active
    /\ ~(name = "cd" /\ arg = <<>>)
    /\ LET r == CommandPath(name, arg, hSite)
           unsupported == name = "mount" /\ ~hDarwin
           stage == IF name = "mount" \/ (name = "open" /\ hDarwin) THEN "check"
                    ELSE IF name = "open" THEN "download" ELSE "main"
           cmd == [NoCmd EXCEPT !.name = name, !.arg = arg]
       IN  /\ (name = "cd" /\ r.ok) =>
                 Len(r.value) <= Len(normalizeRemotePath(OrDefaultRoot(hSite.remoteRoot))) + MaxCdExtra
           /\ \E localOk \in (IF name \in LocalFirst THEN BOOLEAN ELSE {TRUE}) :
                 IF unsupported THEN Begin(cmd) /\ End("ok")
                 ELSE IF ~localOk THEN Begin(cmd) /\ End("failed")
                 ELSE IF ~r.ok THEN Begin([cmd EXCEPT !.escaped = r.escaped]) /\ End("failed")
                 ELSE /\ Begin([cmd EXCEPT !.stage = stage, !.resolved = r.value])
                      /\ hPc' = "ensure" /\ UNCHANGED hResult
    /\ UNCHANGED <<hSite, hOthers, hDarwin, hOpen, readerVars, otherVars>>

\* ensureSftp up to its prompt: credentials present, reused from another site, or asked
\* for; promptForSftpConfig starts by calling suspendShellFn (line 88), which closes
\* the loop's line reader
ensureSftp ==
    /\ hPc = "ensure"
    /\ IF hSite.sftp
       THEN hPc' = "connect" /\ UNCHANGED <<hSite, hPrompted, readerVars>>
       ELSE IF Reusable(hOthers)
       THEN /\ hSite' = [hSite EXCEPT !.sftp = TRUE,
                                      !.remoteRoot = OrDefaultRoot(hSite.remoteRoot),
                                      !.remoteCwd = OrDefaultRoot(hSite.remoteRoot)]
            /\ hPc' = "connect" /\ UNCHANGED <<hPrompted, readerVars>>
       ELSE /\ hPc' = "askCreds" /\ hPrompted' = TRUE /\ UNCHANGED hSite
            /\ hRl' = "closed" /\ hResumes' = 0
    /\ UNCHANGED <<hOthers, hDarwin, hCmd, hOpen, hOpened, hOps, hResult, otherVars>>

PromptResumes_OnAnswerOnly(answered) == answered

\* lines 99-161: resumeShellFn is called in the finally of the prompt
PromptResumes(answered) == TRUE

\* promptForSftpConfig from its prompt on, and the assignments of ensureSftp that
\* follow it; resumeShellFn attaches a new line reader
promptForSftpConfig ==
    /\ hPc = "askCreds"
    /\ \E answered \in BOOLEAN, remoteRoot \in PromptRoots :
          /\ IF PromptResumes(answered)
             THEN hRl' = "attached" /\ hResumes' = hResumes + 1
             ELSE UNCHANGED readerVars
          /\ IF ~answered
             THEN End("failed") /\ UNCHANGED <<hSite, hCmd>>
             ELSE /\ hSite' = [hSite EXCEPT !.sftp = TRUE, !.remoteRoot = remoteRoot,
                                            !.remoteCwd = remoteRoot]
                  /\ hCmd' = [hCmd EXCEPT !.fallbackRoot = remoteRoot]
                  /\ hPc' = "detectConnect" /\ UNCHANGED hResult
    /\ UNCHANGED <<hOthers, hDarwin, hOpen, hOpened, hOps, hPrompted, otherVars>>

\* connectSftp: a session is open only when client.connect resolved
connectSftp(from, to) ==
    /\ hPc = from
    /\ \E connected \in BOOLEAN :
          IF connected
          THEN hOpen' = hOpen + 1 /\ hOpened' = hOpened + 1 /\ hPc' = to /\ UNCHANGED hResult
          ELSE End("failed") /\ UNCHANGED <<hOpen, hOpened>>
    /\ UNCHANGED <<hSite, hOthers, hDarwin, hCmd, hOps, hPrompted, readerVars, otherVars>>

\* ensureSftp: connectSftp(site.sftp) for the detection of the root
ConnectForDetect == connectSftp("detectConnect", "detect")

\* withSftp: connectSftp(sftp) for the handler
ConnectForHandler == connectSftp("connect", "handler")

\* autoDetectRoot in the session `by` opened
Detect(fallbackRoot, to) ==
    \E threw \in BOOLEAN, k \in DetectChoices(hSite, fallbackRoot) :
        /\ hOps' = hOps \cup {Op("detect", q, hSite.remoteRoot) :
                                 q \in DetectProbed(hSite, fallbackRoot, k)}
        /\ hSite' = IF threw THEN hSite ELSE autoDetectRoot(hSite, fallbackRoot, k)
        /\ hCmd' = [hCmd EXCEPT !.threw = threw]
        /\ hPc' = to

\* ensureSftp: autoDetectRoot(site, config, client, remoteRoot)
DetectInEnsure ==
    /\ hPc = "detect"
    /\ Detect(hCmd.fallbackRoot, "detectClose")
    /\ UNCHANGED <<hOthers, hDarwin, hOpen, hOpened, hPrompted, hResult, readerVars, otherVars>>

\* ensureSftp: the finally that closes the detection session
CloseDetect ==
    /\ hPc = "detectClose"
    /\ hOpen' = hOpen - DetectReleases(hCmd.threw)
    /\ IF hCmd.threw THEN End("failed") ELSE hPc' = "connect" /\ UNCHANGED hResult
    /\ UNCHANGED <<hSite, hOthers, hDarwin, hCmd, hOpened, hOps, hPrompted, readerVars, otherVars>>

\* the handler passed to withSftp, run in the open session
RunHandler ==
    /\ hPc = "handler"
    /\ IF hCmd.name = "root"
       THEN Detect(<<>>, "close")
       ELSE \E threw \in BOOLEAN, type \in TypeChoices(hCmd.name) :
               /\ HandlerRejects(hCmd.name, hCmd.stage, type) => threw
               /\ hOps' = hOps \cup {Op("handler", q, hSite.remoteRoot) :
                                        q \in HandlerPaths(hCmd.name, hCmd.stage, hCmd.resolved)}
               /\ hCmd' = [hCmd EXCEPT !.threw = threw, !.type = type]
               /\ hPc' = "close"
               /\ UNCHANGED hSite
    /\ UNCHANGED <<hOthers, hDarwin, hOpen, hOpened, hPrompted, hResult, readerVars, otherVars>>

\* withSftp: the finally that closes the session, and what the command does next
CloseSession ==
    /\ hPc = "close"
    /\ hOpen' = hOpen - HandlerReleases(hCmd.threw)
    /\ IF hCmd.threw
       THEN End("failed") /\ UNCHANGED <<hSite, hCmd>>
       ELSE IF hCmd.name = "cd"
       THEN hSite' = [hSite EXCEPT !.remoteCwd = hCmd.resolved] /\ End("ok") /\ UNCHANGED hCmd
       ELSE IF hCmd.stage = "check"
       THEN IF hCmd.type = "d"
            THEN hPc' = "mounting" /\ UNCHANGED <<hSite, hCmd, hResult>>
            ELSE IF hCmd.name = "open" /\ hCmd.type = "-"
            THEN /\ hCmd' = [hCmd EXCEPT !.stage = "download"]
                 /\ hPc' = "ensure" /\ UNCHANGED <<hSite, hResult>>
            ELSE End("failed") /\ UNCHANGED <<hSite, hCmd>>
       ELSE End("ok") /\ UNCHANGED <<hSite, hCmd>>
    /\ UNCHANGED <<hOthers, hDarwin, hOpened, hOps, hPrompted, readerVars, otherVars>>

\* mountRemotePath as mount and open use it: a mountpoint, null, or an exception
mountRemotePath ==
    /\ hPc = "mounting"
    /\ \E outcome \in {"mounted", "null", "threw"}, pathOpened \in BOOLEAN :
          IF hCmd.name = "mount"
          THEN End(IF outcome = "threw" THEN "failed" ELSE "ok") /\ UNCHANGED hCmd
          ELSE IF outcome = "mounted" /\ pathOpened
          THEN End("ok") /\ UNCHANGED hCmd
          ELSE /\ hCmd' = [hCmd EXCEPT !.stage = "download"]
               /\ hPc' = "ensure" /\ UNCHANGED hResult
    /\ UNCHANGED <<hSite, hOthers, hDarwin, hOpen, hOpened, hOps, hPrompted, readerVars, otherVars>>

\* lines 925-927 and 1062-1066: exit or quit breaks out of the loop, and the
\* finally of startShell closes the line reader
ExitCommand ==
    /\ hPc = "prompt"
    /\ hPc' = "exited" /\ hCmd' = [NoCmd EXCEPT !.name = "exit"]
    /\ hRl' = "closed"
    /\ UNCHANGED <<hSite, hOthers, hDarwin, hOpen, hOpened, hOps, hPrompted, hResult,
                   hResumes, otherVars>>

----------------------------------------------------------------------------
(* Spec: the command loop of startShell *)

OtherSites == {[n |-> 0, match |-> FALSE], [n |-> 1, match |-> FALSE],
               [n |-> 2, match |-> TRUE], [n |-> 2, match |-> FALSE]}

Init ==
    /\ hSite = [active |-> FALSE, remoteRoot |-> <<>>, remoteCwd |-> <<>>, sftp |-> FALSE]
    /\ hOthers \in OtherSites
    /\ hDarwin \in BOOLEAN
    /\ hPc = "prompt" /\ hCmd = NoCmd
    /\ hOpen = 0 /\ hOpened = 0 /\ hOps = {} /\ hPrompted = FALSE /\ hResult = "none"
    /\ hRl = "attached" /\ hResumes = 0
    /\ PathIdle
    /\ ClassIdle
    /\ SyncIdle
    /\ TreeIdle
    /\ MountIdle
    /\ AuxIdle

Next ==
    \/ AskNextLine
    \/ NoActiveSite
    \/ handleConnect
    \/ RootCommand
    \/ RootAuto
    \/ CdHome
    \/ \E name \in PathCommands, arg \in ShellTargets : StartCommand(name, arg)
    \/ ensureSftp
    \/ promptForSftpConfig
    \/ ConnectForDetect
    \/ DetectInEnsure
    \/ CloseDetect
    \/ ConnectForHandler
    \/ RunHandler
    \/ CloseSession
    \/ mountRemotePath
    \/ ExitCommand

Spec == Init /\ [][Next]_vars

\* the while loop of startShell goes on to its next iteration
FairSpec == Spec /\ WF_vars(AskNextLine)

----------------------------------------------------------------------------
(* Claims about the shell *)

\* the command loop is between two commands, the last one over
CommandEnded == hPc = "done"

\* C1: for every command that acts on a remote path, every path its handler hands
\* to a session operation starts with the normalized root of the site, and a
\* command whose path escapes the root fails without having opened a session
C1_HandlerPathsWithinRoot ==
    /\ \A o \in hOps :
          o.by = "handler" => StartsWith(o.path, normalizeRemotePath(OrDefaultRoot(o.root)))
    /\ hCmd.escaped => hOpened = 0 /\ CommandEnded /\ hResult = "failed"

\* C4: whenever a top-level command has ended, however it ended, no session is open
C4_NoSessionAfterCommand == hPc \in {"done", "prompt"} => hOpen = 0

\* a command ended in failure because its handler threw inside an open session
C4_ClosedAfterHandlerThrew ==
    /\ CommandEnded /\ hResult = "failed" /\ hCmd.threw
    /\ \E o \in hOps : o.by = "handler"
    /\ hOpened >= 1 /\ hOpen = 0

\* C5 as stated: a command that touched the remote tree opened exactly one session
C5_ExactlyOneSession == (CommandEnded /\ hOps # {}) => hOpened = 1

\* C5: at most one session is open at any moment; a command that touched the
\* remote tree opened one session, one more if it ran the credential prompt, and
\* one more if it is open on macOS
C5_OneSessionAtATime ==
    /\ hOpen <= 1
    /\ (CommandEnded /\ hOps # {}) =>
          /\ hOpened >= 1
          /\ hOpened <= 1 + (IF hPrompted THEN 1 ELSE 0)
                          + (IF hCmd.name = "open" /\ hDarwin THEN 1 ELSE 0)

\* open on macOS after the credential prompt: detection, path check and download
C5_ThreeSessionsInTurn ==
    /\ CommandEnded /\ hCmd.name = "open" /\ hPrompted /\ hResult = "ok"
    /\ hOpened = 3 /\ hOpen = 0

\* the working path of the site starts with its root, taken as stored or as
\* ensureWithinRoot normalizes it
CwdWithinRoot(site) ==
    \/ StartsWith(site.remoteCwd, site.remoteRoot)
    \/ StartsWith(site.remoteCwd, normalizeRemotePath(OrDefaultRoot(site.remoteRoot)))

\* C31: between two commands, after any sequence of connect, root, cd and
\* credential set-up steps, the working remote path of the connected site is
\* string-prefix-contained in the root of the site.
C31_CwdWithinRoot ==
    (hPc \in {"prompt", "done"} /\ hSite.active /\ hSite.remoteCwd # <<>>)
        => CwdWithinRoot(hSite)

----------------------------------------------------------------------------
(* SpecMount: mountRemotePath against the OS mount table *)

\* the two directories getMountCandidates derives from a domain
MountCandidates == {"primary", "fallback"}

\* what fs.mkdirSync allows: the primary candidate, only the fallback, or neither
MkdirOutcomes == {"primary", "fallback", "fails"}

\* options.remotePath; a mount that is in the mount table when the call starts
\* serves MountedRemotePath
MountedRemotePath == "/site"
RemotePaths == {MountedRemotePath, "/site/sub"}

\* site.sftp when the call starts
StoredAuth == {"none", "password", "key"}

\* how the helper process can end: close with code 0, close with a non-zero
\* code, close with code null (ended by a signal), or the error event
HelperExits == {"zero", "nonzero", "null", "spawnError"}

Event(op, arg) == [op |-> op, arg |-> arg]
ReturnedMountpoint(mountpoint) == [kind |-> "mountpoint", value |-> mountpoint]
ReturnedNull(why) == [kind |-> "null", value |-> why]
Threw(what) == [kind |-> "threw", value |-> what]

\* isMounted: the mount command failing reads as not mounted
isMounted(readable, table, mountpoint) ==
    IF ~readable THEN FALSE ELSE mountpoint \in table

QueryEvent(active) == Event("isMounted", IF active THEN "active" ELSE "inactive")

\* ensureMountpoint: mkdir of the primary, on failure mkdir of the fallback
ensureMountpoint(mkdir) ==
    IF mkdir = "primary" THEN ReturnedMountpoint("primary")
    ELSE IF mkdir = "fallback" THEN ReturnedMountpoint("fallback")
    ELSE Threw("mkdir")

\* the promise of runSshfs: rejected on the error event and on a non-zero
\* close code, resolved on close with code 0 or null
runSshfsRejects(exit) == exit \in {"nonzero", "spawnError"}

\* the try block after runSshfs resolved: both branches return the mountpoint
AfterResolve(active, mountpoint) ==
    IF active THEN ReturnedMountpoint(mountpoint) ELSE ReturnedMountpoint(mountpoint)

AfterReject_TrustsExit(active, mountpoint) == Threw("mount")

\* the catch block after runSshfs rejected
AfterReject(active, mountpoint) ==
    IF active THEN ReturnedMountpoint(mountpoint) ELSE Threw("mount")

MountEnd(result) == mPc' = "done" /\ mResult' = result

\* line 455: ensureMountpoint
EnsureMountpoint ==
    /\ mPc = "called"
    /\ LET made == ensureMountpoint(mIn.mkdir)
       IN  IF made.kind = "threw"
           THEN MountEnd(made) /\ UNCHANGED <<mMountpoint, mDirs>>
           ELSE /\ mPc' = "query" /\ mMountpoint' = made.value /\ UNCHANGED mResult
                /\ mDirs' = mDirs \cup {made.value}
    /\ UNCHANGED <<mIn, mTable, mAuth, mLog, umountVars>>
    /\ UNCHANGED <<pathVars, classVars, syncVars, shellVars, treeVars, auxVars>>

\* a call that goes on to the helper whatever the query answered
ReturnsEarly_Never(active) == FALSE

\* line 456: if (isMounted(mountpoint))
ReturnsEarly(active) == active

\* lines 456-458: the query before anything else
AlreadyMounted ==
    /\ mPc = "query"
    /\ \E readable \in BOOLEAN :
          LET active == isMounted(readable, mTable, mMountpoint)
          IN  /\ mLog' = Append(mLog, QueryEvent(active))
              /\ IF ReturnsEarly(active)
                 THEN MountEnd(ReturnedMountpoint(mMountpoint))
                 ELSE mPc' = "prepare" /\ UNCHANGED mResult
    /\ UNCHANGED <<mIn, mDirs, mTable, mMountpoint, mAuth, umountVars>>
    /\ UNCHANGED <<pathVars, classVars, syncVars, shellVars, treeVars, auxVars>>

NeedsInteractive_Never(type, interactive) == FALSE

\* line 467: password auth cannot be handed to a detached helper
NeedsInteractive(type, interactive) == type = "password" /\ ~interactive

\* lines 460-470: sshfsAvailable, ensureSftp and the password rule
PrepareHelper ==
    /\ mPc = "prepare"
    /\ IF ~mIn.sshfs
       THEN MountEnd(ReturnedNull("install")) /\ UNCHANGED <<mAuth, mLog>>
       ELSE \E how \in {"stored", "adopted", "prompted", "failed"},
               type \in {"password", "key"} :
               /\ (how = "stored") = (mIn.sftp # "none")
               /\ how = "stored" => type = mIn.sftp
               /\ mLog' = IF how \in {"prompted", "failed"}
                          THEN Append(mLog, Event("prompt", how)) ELSE mLog
               /\ IF how = "failed"
                  THEN MountEnd(Threw("ensureSftp")) /\ UNCHANGED mAuth
                  ELSE /\ mAuth' = type
                       /\ IF NeedsInteractive(type, mIn.interactive)
                          THEN MountEnd(ReturnedNull("interactive"))
                          ELSE mPc' = "helper" /\ UNCHANGED mResult
    /\ UNCHANGED <<mIn, mDirs, mTable, mMountpoint, umountVars>>
    /\ UNCHANGED <<pathVars, classVars, syncVars, shellVars, treeVars, auxVars>>

\* lines 421-446 and 476: the helper runs; whether it mounted is not tied to
\* how its process ended
runSshfs ==
    /\ mPc = "helper"
    /\ \E exit \in HelperExits, mounted \in BOOLEAN :
          /\ exit = "spawnError" => ~mounted
          /\ mTable' = IF mounted THEN mTable \cup {mMountpoint} ELSE mTable
          /\ mLog' = Append(mLog, Event("runSshfs", exit))
          /\ mPc' = IF runSshfsRejects(exit) THEN "rejected" ELSE "resolved"
    /\ UNCHANGED <<mIn, mDirs, mMountpoint, mAuth, mResult, umountVars>>
    /\ UNCHANGED <<pathVars, classVars, syncVars, shellVars, treeVars, auxVars>>

\* lines 477-480
AfterHelperResolved ==
    /\ mPc = "resolved"
    /\ \E readable \in BOOLEAN :
          LET active == isMounted(readable, mTable, mMountpoint)
          IN  /\ mLog' = Append(mLog, QueryEvent(active))
              /\ MountEnd(AfterResolve(active, mMountpoint))
    /\ UNCHANGED <<mIn, mDirs, mTable, mMountpoint, mAuth, umountVars>>
    /\ UNCHANGED <<pathVars, classVars, syncVars, shellVars, treeVars, auxVars>>

\* lines 481-487
AfterHelperRejected ==
    /\ mPc = "rejected"
    /\ \E readable \in BOOLEAN :
          LET active == isMounted(readable, mTable, mMountpoint)
          IN  /\ mLog' = Append(mLog, QueryEvent(active))
              /\ MountEnd(AfterReject(active, mMountpoint))
    /\ UNCHANGED <<mIn, mDirs, mTable, mMountpoint, mAuth, umountVars>>
    /\ UNCHANGED <<pathVars, classVars, syncVars, shellVars, treeVars, auxVars>>

\* the mount table belongs to the OS: a mount of either candidate can appear
\* or go while the call is in progress
MountTableChanges ==
    /\ mPc # "off" /\ uPc # "done"
    /\ \E m \in MountCandidates :
          mTable' = IF m \in mTable THEN mTable \ {m} ELSE mTable \cup {m}
    /\ UNCHANGED <<mIn, mDirs, mPc, mMountpoint, mAuth, mLog, mResult, umountVars>>
    /\ UNCHANGED <<pathVars, classVars, syncVars, shellVars, treeVars, auxVars>>

\* getExistingMountpoint: the first candidate that exists, the primary when
\* neither does; nothing is created
getExistingMountpoint(dirs) ==
    IF "primary" \in dirs THEN "primary"
    ELSE IF "fallback" \in dirs THEN "fallback"
    ELSE "primary"

\* what diskutil left on its output streams when it failed: stderr, or only
\* stdout, or nothing
DiskutilOutputs == {"diskutil.stderr", "diskutil.stdout", ""}

\* lines 539-540: the message of the error raised after both commands failed
UmountErrorText(diskutilOutput) ==
    IF diskutilOutput = "" THEN {"Failed to unmount"} ELSE {diskutilOutput}

NeedsFallback_Always(umountOk) == TRUE

\* line 536: diskutil is tried when umount did not exit with status 0
NeedsFallback(umountOk) == ~umountOk

UmountEnd(kind, text) == uPc' = "done" /\ uResult' = [kind |-> kind, text |-> text]

\* lines 518-529: the platform test, the site lookup and getExistingMountpoint
handleUmount ==
    /\ uPc = "idle" /\ mPc \in {"done", "skipped"}
    /\ \E darwin \in BOOLEAN, known \in BOOLEAN :
          /\ mPc = "done" => darwin
          /\ IF ~darwin
             THEN UmountEnd("unsupported", {}) /\ UNCHANGED uMountpoint
             ELSE IF ~known
             THEN UmountEnd("threw", {"Unknown site"}) /\ UNCHANGED uMountpoint
             ELSE /\ uMountpoint' = getExistingMountpoint(mDirs)
                  /\ uPc' = "query" /\ UNCHANGED uResult
    /\ UNCHANGED <<mIn, mTable, mPc, mMountpoint, mAuth, mLog, mResult, mDirs, uLog>>
    /\ UNCHANGED <<pathVars, classVars, syncVars, shellVars, treeVars, auxVars>>

\* lines 530-533
UmountQuery ==
    /\ uPc = "query"
    /\ \E readable \in BOOLEAN :
          LET active == isMounted(readable, mTable, uMountpoint)
          IN  /\ uLog' = Append(uLog, QueryEvent(active))
              /\ IF active
                 THEN uPc' = "umount" /\ UNCHANGED uResult
                 ELSE UmountEnd("notMounted", {})
    /\ UNCHANGED <<mIn, mTable, mPc, mMountpoint, mAuth, mLog, mResult, mDirs, uMountpoint>>
    /\ UNCHANGED <<pathVars, classVars, syncVars, shellVars, treeVars, auxVars>>

\* lines 535-536 and 544: the umount command
UmountPrimary ==
    /\ uPc = "umount"
    /\ \E ok \in BOOLEAN :
          /\ uLog' = Append(uLog, Event("umount", IF ok THEN "ok" ELSE "failed"))
          /\ mTable' = IF ok THEN mTable \ {uMountpoint} ELSE mTable
          /\ IF NeedsFallback(ok)
             THEN uPc' = "diskutil" /\ UNCHANGED uResult
             ELSE UmountEnd("unmounted", {})
    /\ UNCHANGED <<mIn, mPc, mMountpoint, mAuth, mLog, mResult, mDirs, uMountpoint>>
    /\ UNCHANGED <<pathVars, classVars, syncVars, shellVars, treeVars, auxVars>>

\* lines 537-544: diskutil unmount
UmountFallback ==
    /\ uPc = "diskutil"
    /\ \E ok \in BOOLEAN, output \in DiskutilOutputs :
          /\ uLog' = Append(uLog, Event("diskutil", IF ok THEN "ok" ELSE "failed"))
          /\ mTable' = IF ok THEN mTable \ {uMountpoint} ELSE mTable
          /\ IF ok
             THEN UmountEnd("unmounted", {})
             ELSE UmountEnd("threw", UmountErrorText(output))
    /\ UNCHANGED <<mIn, mPc, mMountpoint, mAuth, mLog, mResult, mDirs, uMountpoint>>
    /\ UNCHANGED <<pathVars, classVars, syncVars, shellVars, treeVars, auxVars>>

MountInit ==
    /\ mIn \in [mkdir : MkdirOutcomes, sshfs : BOOLEAN, sftp : StoredAuth,
                interactive : BOOLEAN, remotePath : RemotePaths]
    /\ mTable \in SUBSET MountCandidates
    /\ mDirs \in SUBSET MountCandidates
    /\ mPc \in {"called", "skipped"} /\ mMountpoint = "" /\ mAuth = "none"
    /\ mLog = <<>> /\ mResult = NoResult
    /\ uPc = "idle" /\ uMountpoint = "" /\ uLog = <<>> /\ uResult = NoUmount
    /\ PathIdle
    /\ ClassIdle
    /\ SyncIdle
    /\ ShellIdle
    /\ TreeIdle
    /\ AuxIdle

MountNext ==
    \/ EnsureMountpoint
    \/ AlreadyMounted
    \/ PrepareHelper
    \/ runSshfs
    \/ AfterHelperResolved
    \/ AfterHelperRejected
    \/ MountTableChanges
    \/ handleUmount
    \/ UmountQuery
    \/ UmountPrimary
    \/ UmountFallback

SpecMount == MountInit /\ [][MountNext]_vars

----------------------------------------------------------------------------
(* Claims about mountRemotePath *)

MountReturned == mPc = "done" /\ mResult.kind = "mountpoint"
MountFailure == mPc = "done" /\ mResult = Threw("mount")

HelperRan == \E i \in 1..Len(mLog) : mLog[i].op = "runSshfs"
HelperRejected ==
    \E i \in 1..Len(mLog) : mLog[i].op = "runSshfs" /\ runSshfsRejects(mLog[i].arg)

\* the last entry of the log is a mount-table query with this answer, and it
\* follows the helper's exit directly
RequeriedAfterExit(answer) ==
    /\ Len(mLog) >= 2
    /\ mLog[Len(mLog)] = Event("isMounted", answer)
    /\ mLog[Len(mLog) - 1].op = "runSshfs"

\* the answer of the last mount-table query of the call, "none" without one
LastQuery ==
    LET asked == {i \in 1..Len(mLog) : mLog[i].op = "isMounted"}
    IN  IF asked = {} THEN "none"
        ELSE mLog[CHOOSE i \in asked : \A j \in asked : j <= i].arg

\* C19: when the helper exited non-zero or failed to spawn and the query made
\* afterwards shows the mountpoint active, the call returns the mountpoint;
\* the mount failure is raised only when the query that followed the helper's
\* exit found the mountpoint not active.
C19_ReconciledWithMountTable ==
    mPc = "done" =>
        /\ (HelperRejected /\ RequeriedAfterExit("active")) => mResult = ReturnedMountpoint(mMountpoint)
        /\ MountFailure => (HelperRan /\ RequeriedAfterExit("inactive"))

C19_MountedDespiteNonZeroExit ==
    /\ MountReturned
    /\ \E i \in 1..Len(mLog) : mLog[i] = Event("runSshfs", "nonzero")
    /\ RequeriedAfterExit("active")

\* C20: whenever the call reports the mountpoint as mounted, the last
\* mount-table query made before it returned showed the mountpoint active.
C20_SuccessOnlyIfTableShowsActive ==
    MountReturned => LastQuery = "active"

\* the call was made with password credentials stored for the site, or
\* ensureSftp gave it password credentials, and without --interactive
PasswordWithoutInteractive ==
    /\ mIn.sftp = "password" \/ mAuth = "password"
    /\ ~mIn.interactive

\* the call ended with the message that names the --interactive retry, and
\* with no mountpoint
InteractiveRequired == mPc = "done" /\ mResult = ReturnedNull("interactive")

\* C21 as stated: a call with password credentials and interactive = false
\* ends as InteractiveRequired, with no helper run and no mount reported.
C21_PasswordAlwaysRefused ==
    (mPc = "done" /\ PasswordWithoutInteractive) => (InteractiveRequired /\ ~HelperRan)

\* C21, amended: once ensureSftp has returned password credentials to a call
\* with interactive = false, the call has ended as InteractiveRequired: no
\* helper was run and no mountpoint is returned.
C21_PasswordRefusedBeforeHelper ==
    (mAuth = "password" /\ ~mIn.interactive) => (InteractiveRequired /\ ~HelperRan)

C21_RefusedAfterPrompt ==
    /\ InteractiveRequired /\ mAuth = "password" /\ mIn.sftp = "none"
    /\ mLog = <<Event("isMounted", "inactive"), Event("prompt", "prompted")>>

\* the first mount-table query of the call showed the mountpoint active
ShownActiveAtCall == Len(mLog) >= 1 /\ mLog[1] = QueryEvent(TRUE)
Prompted == \E i \in 1..Len(mLog) : mLog[i].op = "prompt"

\* C33: when the mount table shows the mountpoint of the call active at its
\* first query, the call returns that mountpoint: the helper is not spawned,
\* no credentials are asked for or looked up, nothing further is queried, and
\* this is so for every requested remote path.
C33_AlreadyActiveReturnsAtOnce ==
    ShownActiveAtCall =>
        /\ mPc = "done"
        /\ mResult = ReturnedMountpoint(mMountpoint)
        /\ mLog = <<QueryEvent(TRUE)>>
        /\ ~HelperRan /\ ~Prompted /\ mAuth = "none"

\* C33 witness: the fallback mountpoint was returned to a call that asked for a
\* remote path other than the one the existing mount serves, with the helper
\* not installed and no credentials stored
C33_ReturnedForOtherRemotePath ==
    /\ ShownActiveAtCall /\ mPc = "done"
    /\ mResult = ReturnedMountpoint("fallback")
    /\ mIn.remotePath # MountedRemotePath
    /\ ~mIn.sshfs /\ mIn.sftp = "none" /\ ~mIn.interactive

----------------------------------------------------------------------------
(* Claims about handleUmount *)

UmountIssued(command) == \E i \in 1..Len(uLog) : uLog[i].op = command
UmountFailed(command) == \E i \in 1..Len(uLog) : uLog[i] = Event(command, "failed")

\* the commands issued so far, without the mount-table queries
UmountCommands == SelectSeq(uLog, LAMBDA e : e.op # "isMounted")

\* no step of handleUmount creates a mountpoint candidate
UmountCreatesNothing == [][umountVars' # umountVars => mDirs' = mDirs]_vars

\* with the mountpoint resolved: a query that answers not mounted ends the call
\* without a command; otherwise umount comes first, diskutil only after umount
\* failed, and the call throws only when both failed
UmountSteps ==
    (uPc = "done" /\ uMountpoint # "") =>
        /\ Len(uLog) >= 1 /\ uLog[1].op = "isMounted"
        /\ uLog[1].arg = "inactive" => (UmountCommands = <<>> /\ uResult.kind = "notMounted")
        /\ uLog[1].arg = "active" =>
              /\ Len(UmountCommands) >= 1 /\ UmountCommands[1].op = "umount"
              /\ UmountIssued("diskutil") <=> UmountFailed("umount")
              /\ uResult.kind = "threw" <=> (UmountFailed("umount") /\ UmountFailed("diskutil"))
              /\ uResult.kind \in {"threw", "unmounted"}

\* C22: handleUmount never creates a mountpoint; when the mount table does not
\* show the resolved mountpoint active it issues no unmount command and
\* reports not mounted; otherwise it issues umount, issues diskutil unmount
\* only if umount failed, and raises an error only if both failed.
C22_UnmountProtocol == []UmountSteps /\ UmountCreatesNothing

C22_FallbackUnmounted ==
    /\ uPc = "done" /\ uResult.kind = "unmounted"
    /\ UmountCommands = <<Event("umount", "failed"), Event("diskutil", "ok")>>
    /\ mPc = "done" /\ mResult = ReturnedMountpoint(uMountpoint)

\* handleUmount has resolved a mountpoint after a mount call returned one
UnmountAfterMount == MountReturned /\ uMountpoint # ""

\* C34: after mount returned mountpoint m (primary or fallback) and with no
\* change to the local directories since, unmount resolves the same m, and a
\* query that shows it active is followed by the umount command on it.
C34_UnmountResolvesMountedPoint ==
    UnmountAfterMount =>
        /\ uMountpoint = mResult.value
        /\ (uPc = "done" /\ uLog[1] = QueryEvent(TRUE)) => UmountIssued("umount")

\* C23: when umount and diskutil unmount both failed, the error raised carries
\* the failure text of both attempts.
C23_ErrorCarriesBothTexts ==
    (uPc = "done" /\ UmountFailed("umount") /\ UmountFailed("diskutil")) =>
        /\ "umount.stderr" \in uResult.text
        /\ uResult.text \cap {"diskutil.stderr", "diskutil.stdout"} # {}

----------------------------------------------------------------------------
(* SpecMountTable: isMounted over the text the mount command prints *)

\* the text of a mountpoint or device, as a sequence of characters
MountA == <<"/", "a">>
MountAB == <<"/", "a", "b">>
MountASpace1 == <<"/", "a", " ", "1">>
MountB == <<"/", "b">>

\* mount targets the table can list: /a, /ab, "/a 1" and /b
TableTargets == {MountA, MountAB, MountASpace1, MountB}

\* devices: a plain one, and a remote whose path holds the text " on /a "
PlainDevice == <<"d">>
DeviceNamingA == <<"d", " ", "o", "n", " ", "/", "a", " ", "x">>
TableDevices == {PlainDevice, DeviceNamingA}

\* most entries in the mount table
MaxEntries == 2

TableEntries == [device : TableDevices, target : TableTargets]
MountTables == UNION {[1..n -> TableEntries] : n \in 0..MaxEntries}

\* the mountpoints asked about
AskedMountpoints == {MountA, MountAB, MountB}

\* one line of `mount`: <device> on <target> (<options>)
EntryLine(entry) ==
    entry.device \o <<" ", "o", "n", " ">> \o entry.target \o <<" ", "(", ")", "\n">>

RECURSIVE MountStdout(_)
MountStdout(table) ==
    IF table = <<>> THEN <<>> ELSE EntryLine(Head(table)) \o MountStdout(Tail(table))

\* String.prototype.includes
Includes(text, needle) ==
    \E i \in 1..(Len(text) - Len(needle) + 1) :
        SubSeq(text, i, i + Len(needle) - 1) = needle

\* line 325: ` on ${mountpoint} `
Needle(mountpoint) == <<" ", "o", "n", " ">> \o mountpoint \o <<" ">>

\* isMounted: false when the mount command failed, else whether its output
\* includes the needle
isMountedText(readable, table, mountpoint) ==
    IF ~readable THEN FALSE ELSE Includes(MountStdout(table), Needle(mountpoint))

TableInit ==
    /\ kTable \in MountTables
    /\ kReadable \in BOOLEAN
    /\ kMountpoint \in AskedMountpoints
    /\ kAnswer = "none"
    /\ PathIdle
    /\ ClassIdle
    /\ SyncIdle
    /\ ShellIdle
    /\ TreeIdle
    /\ MountIdle
    /\ ProgressIdle
    /\ ReporterIdle

ApplyIsMounted ==
    /\ kAnswer = "none"
    /\ kAnswer' = IF isMountedText(kReadable, kTable, kMountpoint) THEN "true" ELSE "false"
    /\ UNCHANGED <<kTable, kReadable, kMountpoint>>
    /\ UNCHANGED <<pathVars, classVars, syncVars, shellVars, treeVars, mountVars, progressVars, reporterVars>>

TableNext == ApplyIsMounted

SpecMountTable == TableInit /\ [][TableNext]_vars

\* some entry of the table has the mountpoint as its exact mount target
ExactTarget == \E i \in 1..Len(kTable) : kTable[i].target = kMountpoint

\* C24: isMounted answers true only if some mount-table entry has the
\* mountpoint as its exact mount target.
C24_TrueOnlyForExactTarget == kAnswer = "true" => ExactTarget

----------------------------------------------------------------------------
(* Claims about the command loop's line reader *)

\* inquirer's prompt owns stdin
PromptActive == hPc = "askCreds"

\* C25: while the credential prompt is active the loop's line reader is not
\* attached to stdin; once the prompt is over, on either exit path, the reader
\* is attached again and resumeShellFn was called exactly once for the one
\* suspendShellFn call, before the command loop gets control back.
C25_ReaderYieldsToPrompt ==
    /\ PromptActive => (hRl = "closed" /\ hResumes = 0)
    /\ (hPc \notin {"off", "exited"} /\ ~PromptActive) => hRl = "attached"
    /\ (hPrompted /\ ~PromptActive) => hResumes = 1

C25_ResumedAfterPromptFailure ==
    /\ CommandEnded /\ hPrompted /\ ~hSite.sftp /\ hResult = "failed"
    /\ hRl = "attached" /\ hResumes = 1

\* the loop has ended only by the exit command, read at the prompt
OnlyExitEndsLoop == hPc = "exited" => (hCmd.name = "exit" /\ hResult = "none")

\* a failed command is followed by the prompt
FailureReturnsToPrompt == (CommandEnded /\ hResult = "failed") ~> hPc = "prompt"

\* C30: a command that fails has its error reported and the loop returns to
\* the prompt for the next command; only exit or quit ends the loop, and no
\* command failure does.
C30_FailuresKeepTheLoop == []OnlyExitEndsLoop /\ FailureReturnsToPrompt

C30_PromptAfterFailure ==
    /\ hPc = "exited" /\ hSite.active /\ ~hSite.sftp /\ hResumes = 1

----------------------------------------------------------------------------
(* SpecProgress: the byte accounting of a TransferProgress *)

\* most add calls on one TransferProgress
MaxAdds == 3

\* largest byte count handed to add
MaxBytes == 2

\* a JavaScript number: finite with value n, or NaN, or Infinity
Finite(n) == [kind |-> "finite", n |-> n]
NotANumber == [kind |-> "NaN", n |-> 0]
PlusInfinity == [kind |-> "Infinity", n |-> 0]

AddArguments == {Finite(n) : n \in -1..MaxBytes} \cup {NotANumber, PlusInfinity}
TotalArguments == {-1, 0, MaxBytes + 1}

add_Unguarded(transferredBytes, bytes) == transferredBytes + bytes.n

\* add: an argument that is not finite or not positive is ignored
add(transferredBytes, bytes) ==
    IF bytes.kind # "finite" \/ bytes.n <= 0
    THEN transferredBytes
    ELSE transferredBytes + bytes.n

ProgressInit ==
    /\ \E totalBytes \in TotalArguments : gTotal = IF totalBytes > 0 THEN totalBytes ELSE 0
    /\ gTransferred = 0 /\ gAdds = <<>> /\ gFinished = 0
    /\ PathIdle
    /\ ClassIdle
    /\ SyncIdle
    /\ ShellIdle
    /\ TreeIdle
    /\ MountIdle
    /\ TableIdle
    /\ ReporterIdle

ProgressAdd ==
    /\ gFinished = 0 /\ Len(gAdds) < MaxAdds
    /\ \E bytes \in AddArguments :
          /\ gTransferred' = add(gTransferred, bytes)
          /\ gAdds' = Append(gAdds, bytes)
    /\ UNCHANGED <<gTotal, gFinished>>
    /\ UNCHANGED <<pathVars, classVars, syncVars, shellVars, treeVars, mountVars, tableVars, reporterVars>>

ProgressFinish ==
    /\ gFinished = 0
    /\ gFinished' = 1
    /\ UNCHANGED <<gTotal, gTransferred, gAdds>>
    /\ UNCHANGED <<pathVars, classVars, syncVars, shellVars, treeVars, mountVars, tableVars, reporterVars>>

ProgressNext == ProgressAdd \/ ProgressFinish

SpecProgress == ProgressInit /\ [][ProgressNext]_vars

NonNegativeCount(bytes) == bytes.kind = "finite" /\ bytes.n >= 0

\* after exactly two add calls with non-negative byte counts, the sum
SumOfTwo ==
    (Len(gAdds) = 2 /\ NonNegativeCount(gAdds[1]) /\ NonNegativeCount(gAdds[2])) =>
        gTransferred = gAdds[1].n + gAdds[2].n

\* C26: after add(n1) then add(n2) with non-negative byte counts
\* transferredBytes is n1 + n2, and no add call, whatever its argument, makes
\* transferredBytes smaller.
C26_AddAccumulates == []SumOfTwo /\ [][gTransferred' >= gTransferred]_vars

C26_TwoAddsThenIgnored ==
    /\ gAdds = <<Finite(2), Finite(1), Finite(-1)>> /\ gTransferred = 3

----------------------------------------------------------------------------
(* The result lists of syncDirectory                                           *)

\* the relative paths of the enumerated files, in enumeration order
FileRels == [i \in 1..Len(files) |-> files[i].rel]

\* list holds some of the enumerated paths, each once, in enumeration order
InEnumerationOrder(list) ==
    list = SelectSeq(FileRels, LAMBDA rel : rel \in SeqToSet(list))

\* C28: when syncDirectory has returned, every enumerated local file is in
\* exactly one of uploaded and skipped, each of the two lists is in enumeration
\* order, and neither holds a path that was not enumerated.
C28_ResultListsPartitionFiles ==
    sPc = "done" =>
        /\ SeqToSet(sUploaded) \cup SeqToSet(sSkipped) = SeqToSet(FileRels)
        /\ SeqToSet(sUploaded) \cap SeqToSet(sSkipped) = {}
        /\ InEnumerationOrder(sUploaded)
        /\ InEnumerationOrder(sSkipped)

\* C28 witness: a sync that transfers has returned with one enumerated file
\* uploaded and the other skipped, the ignored file in neither list
C28_ReturnedWithBothLists ==
    /\ sPc = "done" /\ ~sOpt.dryRun
    /\ Len(sLocal) = 3 /\ Len(files) = 2
    /\ sUploaded = <<FileBC>>
    /\ sSkipped = <<FileA>>

----------------------------------------------------------------------------
(* SpecReplace: the shell commands `replace` and `update`, which clear the     *)
(* remote directory (replace only) and then call syncDirectory with            *)
(* clean: false and dryRun: false.  Several local files share a parent.        *)

FileO == <<"o">>
Modes == {"replace", "update"}

\* a mode that never clears
ClearsFirst_Never(mode) == FALSE

\* if (mode === "replace")
ClearsFirst(mode) == mode = "replace"

\* a local file of one byte: absent, as old as a remote copy, or newer
AgedChoices(rel) == {<<>>} \cup {<<LocalFile(rel, 1, mt)>> : mt \in SyncLocalMtimes}
NewChoices(rel) == {<<>>, <<LocalFile(rel, 1, MaxSec * 1000 + 1)>>}

\* an empty local file named "b", as old as the remote entries
EmptyFileB == LocalFile(<<"b">>, 0, 1000)

\* local trees in which "a" and "o" share the target directory as their parent
\* and "b/c" and "b/o" share "b", and local trees in which "b" is an empty file
SharedParentTrees ==
    {a \o bc \o bo \o o : a \in AgedChoices(FileA), bc \in AgedChoices(FileBC),
                           bo \in NewChoices(OrphanBO), o \in NewChoices(FileO)}
    \cup {a \o <<EmptyFileB>> : a \in AgedChoices(FileA)}

\* the remote trees of SpecSync, and one in which the target path is a file
ReplaceRemoteTrees ==
    RemoteTrees \cup {(RootPath :> DirEntry) @@ (TargetDir :> FileEntry(1, 1))}

ReplaceInit ==
    /\ sLocal \in SharedParentTrees
    /\ sOpt \in [clean : {FALSE}, dryRun : {FALSE}, mode : Modes]
    /\ sRemote0 \in ReplaceRemoteTrees
    /\ sRemote = sRemote0
    /\ sPc = "clear"
    /\ sIdx = 1
    /\ sPlan = <<>> /\ sSkipped = <<>> /\ sUploaded = <<>> /\ sDeleted = <<>>
    /\ sRemoteDirs = {} /\ sRemoteFiles = <<>> /\ sCalls = <<>> /\ sFaults = 0
    /\ sFirst = [state |-> "none", uploaded |-> <<>>, skipped |-> <<>>,
                 deleted |-> <<>>, faults |-> 0]
    /\ PathIdle
    /\ ClassIdle
    /\ ShellIdle
    /\ TreeIdle
    /\ MountIdle
    /\ AuxIdle

\* the callback given to withSftp, up to the call of syncDirectory
handleReplaceUpdate ==
    /\ sPc = "clear"
    /\ IF ~ClearsFirst(sOpt.mode)
       THEN /\ sPc' = "classify"
            /\ UNCHANGED <<sRemote, sCalls, sFaults>>
       ELSE \E fault \in FaultChoices :
            LET cleared == clearRemoteDir(sRemote, TargetDir)
            IN  /\ sFaults' = sFaults + (IF fault THEN 1 ELSE 0)
                /\ IF fault
                   THEN /\ sCalls' = <<Call("exists", TargetDir)>>
                        /\ UNCHANGED sRemote
                        /\ sPc' = "failed"
                   ELSE /\ sCalls' = cleared.calls
                        /\ sRemote' = cleared.fs
                        /\ sPc' = IF cleared.ok THEN "classify" ELSE "failed"
    /\ UNCHANGED <<sIdx, sPlan, sSkipped, sUploaded, sDeleted, sRemoteDirs, sRemoteFiles>>
    /\ UNCHANGED <<sLocal, sOpt, sRemote0, sFirst, pathVars, classVars, shellVars, treeVars, mountVars, auxVars>>

ReplaceNext ==
    \/ handleReplaceUpdate
    \/ Classify
    \/ BuildPlan
    \/ ExecDir
    \/ ExecPut
    \/ ExecFinish
    \/ Return

SpecReplace == ReplaceInit /\ [][ReplaceNext]_vars

----------------------------------------------------------------------------
(* Claims about SpecReplace                                                    *)

StatIndexes == {i \in 1..Len(sCalls) : sCalls[i].op = "stat"}

\* the calls of the execution phase: those after the last stat of the
\* classification (none while no file has been classified)
ExecIndexes ==
    IF StatIndexes = {} THEN {}
    ELSE {i \in 1..Len(sCalls) : \A j \in StatIndexes : j < i}

\* how often the execution phase has invoked ensureRemoteDir on dir: every
\* invocation starts with client.exists(dir), and nothing else in the phase
\* calls exists
EnsureCount(dir) == Cardinality({i \in ExecIndexes : sCalls[i] = Call("exists", dir)})

PlanParents == {sPlan[i].remoteDirname : i \in 1..Len(sPlan)}
CalledPaths == {sCalls[i].path : i \in 1..Len(sCalls)}
ExecutionCompleted == sPc \in {"return", "done"}

\* C27: the execution phase invokes ensureRemoteDir at most once on any
\* directory and only on parent directories of the upload plan; when the phase
\* has run to its end it has invoked it exactly once on each distinct parent,
\* however many planned files share it.
C27_EnsuredOncePerParent ==
    /\ \A dir \in CalledPaths \cup PlanParents :
         /\ EnsureCount(dir) <= 1
         /\ EnsureCount(dir) = 1 => dir \in PlanParents
    /\ ExecutionCompleted => \A dir \in PlanParents : EnsureCount(dir) = 1

\* C27 witness: four files were uploaded, two with the target directory as
\* parent (not adjacent in the plan) and two with "b"; each of the two parents
\* was ensured once
C27_FourFilesTwoParents ==
    /\ sPc = "done"
    /\ sUploaded = <<FileA, FileBC, OrphanBO, FileO>>
    /\ PlanParents = {TargetDir, RemotePathOf(<<"b">>)}
    /\ EnsureCount(TargetDir) = 1
    /\ EnsureCount(RemotePathOf(<<"b">>)) = 1
    /\ Len(CallsOf({"put"})) = 4

\* the files (not directories) below dir in a remote tree
EntriesUnder(fs, dir) == {p \in DOMAIN fs : IsUnder(p, dir)}
Replaced == sOpt.mode = "replace" /\ sPc = "done"

\* a replace command that has ended successfully: the files below the remote
\* directory are exactly the remote paths of the enumerated local files, each
\* with its local size; none was skipped; every delete and rmdir came before
\* every stat and put
ReplaceMirrorsLocal ==
    Replaced =>
        /\ RemoteFilesUnder(sRemote, TargetDir) = LocalSet
        /\ sSkipped = <<>>
        /\ sUploaded = FileRels
        /\ UploadedInPlace(sRemote)
        /\ \A i, j \in 1..Len(sCalls) :
             (sCalls[i].op \in {"stat", "put"} /\ sCalls[j].op \in {"delete", "rmdir"})
                 => j < i

\* replace enters syncDirectory with nothing left below the remote directory
ClearedBeforeSync ==
    [][(sOpt.mode = "replace" /\ sPc = "clear" /\ sPc' = "classify")
           => EntriesUnder(sRemote', TargetDir) = {}]_vars

EveryFileMirrored(fs) ==
    \A i \in 1..Len(files) :
        LET remotePath == RemotePathOf(files[i].rel)
        IN  /\ remotePath \in DOMAIN fs
            /\ fs[remotePath].type = "-"
            /\ fs[remotePath].size = files[i].size

\* C32: when syncDirectory has returned from a call with dryRun = false, every
\* enumerated local file has a remote file at its derived remote path whose
\* size equals the local size.
C32_EveryLocalFileOnRemote ==
    (sPc = "done" /\ ~sOpt.dryRun) => EveryFileMirrored(sRemote)

----------------------------------------------------------------------------
(* SpecReporter: the two places that construct a TransferProgress, the upload  *)
(* loop of syncDirectory (sync.ts:109-137) and handlePut (shell.ts:661-686),   *)
(* with the reporter itself in the g-variables (gFinished = -1: none exists)   *)

\* most entries of an upload plan, and most chunks a read stream delivers
MaxPlan == 3
MaxChunks == 2

\* what stops handlePut before it constructs anything: no argument, no local
\* file, a remote path outside the root
PutPreconditions == {"ok", "usage", "missing", "escaped"}

ReporterOwners ==
    {[who |-> "sync", dryRun |-> d, plan |-> n, pre |-> "ok"] :
        d \in BOOLEAN, n \in 0..MaxPlan}
    \cup {[who |-> "put", dryRun |-> FALSE, plan |-> 1, pre |-> p] : p \in PutPreconditions}

\* a reporter that syncDirectory constructs on every call
ConstructsProgress_Always(dryRun, planLength) == TRUE

\* !dryRun && uploadPlan.length > 0
ConstructsProgress(dryRun, planLength) == ~dryRun /\ planLength > 0

\* a finish that runs only when the try block ended normally
FinishesOnExit_ReturnOnly(threw) == ~threw

\* `finally { progress.finish() }`
FinishesOnExit(threw) == TRUE

\* new TransferProgress(totalBytes, "Uploading")
NewProgress(totalBytes) ==
    /\ gTotal' = IF totalBytes > 0 THEN totalBytes ELSE 0
    /\ gTransferred' = 0 /\ gAdds' = <<>> /\ gFinished' = 0

\* the data events of one read stream: progress.add(chunk.length) for each
RECURSIVE AddChunks(_, _)
AddChunks(transferredBytes, chunks) ==
    IF chunks = 0 THEN transferredBytes
    ELSE AddChunks(add(transferredBytes, Finite(1)), chunks - 1)

RECURSIVE ChunkLog(_, _)
ChunkLog(adds, chunks) ==
    IF chunks = 0 THEN adds ELSE ChunkLog(Append(adds, Finite(1)), chunks - 1)

\* how the remote work for one file can end; the session is set up by
\* withSftp in handlePut only (syncDirectory is handed an open session)
TransferOutcomes(who) ==
    {"ok", "ensureFailed", "putFailed"} \cup (IF who = "put" THEN {"sessionFailed"} ELSE {})

ReporterInit ==
    /\ rIn \in ReporterOwners
    /\ rPc = "start" /\ rIdx = 1 /\ rThrew = FALSE
    /\ ProgressIdle
    /\ PathIdle
    /\ ClassIdle
    /\ SyncIdle
    /\ ShellIdle
    /\ TreeIdle
    /\ MountIdle
    /\ TableIdle

reporterOthers == <<pathVars, classVars, syncVars, shellVars, treeVars, mountVars, tableVars>>

\* sync.ts:109-117 and shell.ts:661-676: up to the `try`
ConstructProgress ==
    /\ rPc = "start"
    /\ IF rIn.who = "put"
       THEN IF rIn.pre # "ok"
            THEN rPc' = "threw" /\ UNCHANGED progressVars
            ELSE rPc' = "try" /\ NewProgress(rIn.plan)
       ELSE /\ rPc' = "try"
            /\ IF ConstructsProgress(rIn.dryRun, rIn.plan)
               THEN NewProgress(rIn.plan)
               ELSE UNCHANGED progressVars
    /\ UNCHANGED <<rIn, rIdx, rThrew, reporterOthers>>

\* one pass of the upload loop (sync.ts:119-131), or the callback of handlePut
\* with its session (shell.ts:679-682)
TransferEntry ==
    /\ rPc = "try" /\ rIdx <= rIn.plan
    /\ IF rIn.dryRun
       THEN rIdx' = rIdx + 1 /\ UNCHANGED <<rPc, rThrew, progressVars>>
       ELSE \E outcome \in TransferOutcomes(rIn.who), chunks \in 0..MaxChunks :
               /\ outcome \in {"ensureFailed", "sessionFailed"} => chunks = 0
               /\ gTransferred' = AddChunks(gTransferred, chunks)
               /\ gAdds' = ChunkLog(gAdds, chunks)
               /\ UNCHANGED <<gTotal, gFinished>>
               /\ IF outcome = "ok"
                  THEN rIdx' = rIdx + 1 /\ UNCHANGED <<rPc, rThrew>>
                  ELSE rPc' = "finally" /\ rThrew' = TRUE /\ UNCHANGED rIdx
    /\ UNCHANGED <<rIn, reporterOthers>>

\* the try block ran to its end
LeaveTry ==
    /\ rPc = "try" /\ rIdx > rIn.plan
    /\ rPc' = "finally"
    /\ UNCHANGED <<rIn, rIdx, rThrew, progressVars, reporterOthers>>

\* sync.ts:133-137 and shell.ts:683-685: the finally block, then the return or
\* the exception
FinishProgress ==
    /\ rPc = "finally"
    /\ gFinished' = IF gFinished >= 0 /\ FinishesOnExit(rThrew) THEN gFinished + 1
                    ELSE gFinished
    /\ rPc' = IF rThrew THEN "threw" ELSE "returned"
    /\ UNCHANGED <<rIn, rIdx, rThrew, gTotal, gTransferred, gAdds, reporterOthers>>

ReporterNext ==
    \/ ConstructProgress
    \/ TransferEntry
    \/ LeaveTry
    \/ FinishProgress

SpecReporter == ReporterInit /\ [][ReporterNext]_vars

Constructed == gFinished >= 0
OwnerLeft == rPc \in {"returned", "threw"}

\* C35: a TransferProgress constructed by syncDirectory or by the put command
\* has had finish() called exactly once when its owner returns or throws, and
\* not before; syncDirectory constructs none in a dry run or for an empty
\* upload plan.
C35_FinishedExactlyOnce ==
    /\ Constructed => gFinished = (IF OwnerLeft THEN 1 ELSE 0)
    /\ (rIn.who = "sync" /\ (rIn.dryRun \/ rIn.plan = 0)) => ~Constructed
    /\ (rPc \in {"try", "finally"} /\ ~(rIn.who = "sync" /\ (rIn.dryRun \/ rIn.plan = 0)))
           => Constructed

\* C35 witness: syncDirectory threw out of the transfer of its second file,
\* after chunks of both files were counted, and the reporter was finished once
C35_FinishedAfterFailedTransfer ==
    /\ rIn.who = "sync" /\ rPc = "threw" /\ rIdx = 2
    /\ gFinished = 1 /\ Len(gAdds) >= 2

====
